---- MODULE Spec2Model ----
(***************************************************************************)
(* Draw calendar, schedule resolver and concurso numbering of the          *)
(* POP-SORTE entry page (src/unnamed/part_000).                            *)
(*                                                                         *)
(* A JavaScript Date is modelled by its time value in whole SECONDS since  *)
(* 1970-01-01T00:00:00Z (every instant the calendar code builds is a whole *)
(* second; the clock is sampled on whole seconds).  A 'YYYY-MM-DD' string  *)
(* is modelled by the record [year, month, day] it spells, so formatting   *)
(* and parsing are the civil-calendar conversions the engine performs.     *)
(* All instants of the model lie after 2019-02-17, from when the           *)
(* America/Sao_Paulo zone used by the Intl formatters is UTC-3 all year.   *)
(***************************************************************************)
EXTENDS Integers, Sequences, FiniteSets, TLC

VARIABLES
    tz,     \* local time zone of the calling environment (browser)
    now,    \* reading of getBrazilTime(): Date.now() + serverTimeOffset
    op,     \* name of the last operation called
    arg,    \* its input
    res,    \* its result
    prev,   \* [arg, res] of the calculateConcurso call just before, or NoCall
    contestResults, \* LotteryValidator.contestResults of the admin page
    inputEntries,   \* the entries handed to the validator, as the call left them
    cacheWinners,   \* cache.winners of the admin page's data fetcher
    retry,          \* the running retryWithBackoff: its position and locals
    isSubmitting,   \* the page's flag against double submission
    submissions,    \* the confirmEntry invocations awaiting their request
    lastClick,      \* how the last confirmEntry invocation began
    fetchLock,      \* fetchLock of the admin page's data fetcher
    cacheEntries,   \* cache.entries
    fetches,        \* the fetchEntries invocations that hold the lock
    lastFetch       \* how the last fetchEntries invocation began

\* The entry objects of the caller.
heapVars == <<inputEntries>>

\* The caches of derived computations.
cacheVars == <<cacheWinners>>

\* The locals of the asynchronous functions of the page.
retryVars == <<retry>>

\* The submission of a ticket.
submitVars == <<isSubmitting, submissions, lastClick>>

\* The fetching of the entries sheet.
fetchVars == <<fetchLock, cacheEntries, fetches, lastFetch>>

vars ==
    <<tz, now, op, arg, res, prev, contestResults, heapVars, cacheVars, retryVars,
      submitVars, fetchVars>>

(***************************************************************************)
(* Bounds of the model.                                                    *)
(***************************************************************************)
\* civil days before / after the reference date that are given as inputs
DaysBefore == 12
DaysAfter == 22
\* other years (before and after 2025) whose year-end days are inputs
YearsAround == 2
\* civil days on either side of a daylight-saving change of the local zone
TransitionMargin == 2

\* Results in one call of setResults, and entries in one call of getWinners.
MaxResults == 2
MaxEntries == 3

\* The lists given to matchNumbers hold up to MaxPick numbers of 1..MaxNumber.
MaxPick == 2
MaxNumber == 3

\* getPrizeTier is asked for the match counts 0..MaxMatchCount.
MaxMatchCount == 6
ConcursoReach == 110

\* Entries in a list handed to the cache of winner computations.
MaxCached == 3

\* retryWithBackoff is called with maxRetries of 0..MaxRetriesArg.
MaxRetriesArg == 3

\* confirmEntry invocations that may await their request at one time.
MaxSubmissions == 2

\* fetchEntries invocations that may hold the lock at one time; the clock of
\* the admin page goes on for MaxElapsed seconds in steps of TickSeconds.
MaxFetches == 2
MaxElapsed == 360
TickSeconds == 90

\* Lines parsed between two yields.
batchSize == 500

\* Numbers on a ticket and in a draw.
maxNumbers == 5

(***************************************************************************)
(* The built-in Date arithmetic: days <-> civil date (proleptic Gregorian).*)
(* Shared intermediate values are passed as parameters of small operators. *)
(***************************************************************************)
\* Day number of day d of the month that is mp months after March of the
\* March-based year yy.
DaysFromShifted(yy, mp, d) ==
    (yy \div 400) * 146097 + (yy % 400) * 365 + (yy % 400) \div 4
        - (yy % 400) \div 100 + (153 * mp + 2) \div 5 + d - 1 - 719468

\* Day number (days since 1970-01-01) of a civil date: Date.UTC / MakeDay.
DaysFromCivil(y, m, d) ==
    DaysFromShifted(IF m <= 2 THEN y - 1 ELSE y, IF m > 2 THEN m - 3 ELSE m + 9, d)

CivilOf(era, yoe, doy, mp) ==
    [year  |-> yoe + era * 400 + (IF mp < 10 THEN 0 ELSE 1),
     month |-> IF mp < 10 THEN mp + 3 ELSE mp - 9,
     day   |-> doy - (153 * mp + 2) \div 5 + 1]

CivilFromDoy(era, yoe, doy) == CivilOf(era, yoe, doy, (5 * doy + 2) \div 153)

CivilFromYoe(era, doe, yoe) ==
    CivilFromDoy(era, yoe, doe - (365 * yoe + yoe \div 4 - yoe \div 100))

CivilFromDoe(era, doe) ==
    CivilFromYoe(era, doe,
        (doe - doe \div 1460 + doe \div 36524 - doe \div 146096) \div 365)

\* Civil date of a day number: getUTCFullYear / getUTCMonth / getUTCDate.
CivilFromDays(z) ==
    CivilFromDoe((z + 719468) \div 146097, (z + 719468) % 146097)

\* new Date(`${dateStr}THH:MM:SS<offset>`): the instant of a civil date and
\* wall-clock time at a fixed UTC offset (offset in seconds, -10800 = -03:00).
ParseDate(dateStr, hh, mm, ss, offset) ==
    DaysFromCivil(dateStr.year, dateStr.month, dateStr.day) * 86400
        + hh * 3600 + mm * 60 + ss - offset

\* Day of the week of a day number, 0 = Sunday (1970-01-01 was a Thursday).
WeekDay(z) == (z + 4) % 7

(***************************************************************************)
(* The environment's local time zone, which the Date methods setDate,      *)
(* getDate, setHours, setSeconds and getSeconds work in.  It is an input   *)
(* of the page: three zones of fixed offset and one that observes          *)
(* daylight-saving time (EU rule: UTC+2 from the last Sunday of March,     *)
(* 01:00 UTC, to the last Sunday of October, 01:00 UTC; UTC+1 otherwise).  *)
(***************************************************************************)
TimeZones == {"America/Sao_Paulo", "UTC", "Asia/Tokyo", "Europe/Berlin"}

SundayOnOrBefore(z) == z - WeekDay(z)

\* Day number of the last Sunday of a 31-day month.
LastSunday(y, m) == SundayOnOrBefore(DaysFromCivil(y, m, 31))

\* Instant of the zone change in March (start) / October (end) of year y.
DstStart(y) == LastSunday(y, 3) * 86400 + 3600
DstEnd(y) == LastSunday(y, 10) * 86400 + 3600

InDst(y, t) == DstStart(y) <= t /\ t < DstEnd(y)

StdOffset(zone) ==
    CASE zone = "America/Sao_Paulo" -> -10800
      [] zone = "UTC" -> 0
      [] zone = "Asia/Tokyo" -> 32400
      [] zone = "Europe/Berlin" -> 3600

DstOffset(zone) == IF zone = "Europe/Berlin" THEN 7200 ELSE StdOffset(zone)

\* Offset of local time from UTC at instant t: LocalTime(t) = t + offset.
LocalOffset(zone, t) ==
    IF InDst(CivilFromDays(t \div 86400).year, t) THEN DstOffset(zone)
    ELSE StdOffset(zone)

LocalTime(zone, t) == t + LocalOffset(zone, t)

\* UTC(tlocal) of ECMA-262: the instant of a local wall-clock time; a time
\* that occurs twice is the earlier instant, a time that is skipped is read
\* with the offset in force before the change.
UTCOfLocal(zone, tlocal) ==
    IF LocalOffset(zone, tlocal - DstOffset(zone)) = DstOffset(zone)
    THEN tlocal - DstOffset(zone)
    ELSE tlocal - StdOffset(zone)

\* Date.prototype.getDate(): day of the month in local time.
getDate(zone, t) == CivilFromDays(LocalTime(zone, t) \div 86400).day

\* MakeDate(MakeDay(year, month, dt), TimeWithinDay): day dt of the month of
\* civil date c (0 and 32 roll into the neighbouring month).
MakeLocal(c, dt, timeInDay) ==
    (DaysFromCivil(c.year, c.month, 1) + dt - 1) * 86400 + timeInDay

SetLocalDate(zone, local, dt) ==
    UTCOfLocal(zone, MakeLocal(CivilFromDays(local \div 86400), dt, local % 86400))

\* Date.prototype.setDate(dt): same local month and time of day, day dt.
setDate(zone, t, dt) == SetLocalDate(zone, LocalTime(zone, t), dt)

\* Date.prototype.getSeconds() / setSeconds(s) in local time.
getSeconds(zone, t) == LocalTime(zone, t) % 60

SetLocalSeconds(zone, local, s) == UTCOfLocal(zone, local - (local % 60) + s)

setSeconds(zone, t, s) == SetLocalSeconds(zone, LocalTime(zone, t), s)

\* Date.prototype.setHours(0, 0, 0, 0): local midnight of the local day.
LocalMidnight(zone, local) == UTCOfLocal(zone, local - (local % 86400))

setHoursMidnight(zone, t) == LocalMidnight(zone, LocalTime(zone, t))

\* Date.prototype.getUTCDate() / setUTCDate(dt) / toISOString().split('T')[0]
getUTCDate(t) == CivilFromDays(t \div 86400).day

setUTCDate(t, dt) == MakeLocal(CivilFromDays(t \div 86400), dt, t % 86400)

toISODateString(t) == CivilFromDays(t \div 86400)

(***************************************************************************)
(* Brazil-time helpers                                                     *)
(***************************************************************************)
ComponentsOf(c, s) ==
    [year |-> c.year, month |-> c.month, day |-> c.day,
     hour |-> s \div 3600, minute |-> (s % 3600) \div 60, second |-> s % 60]

ComponentsAt(brazilTime) ==
    ComponentsOf(CivilFromDays(brazilTime \div 86400), brazilTime % 86400)

\* Manual UTC-3 calculation.
getBrazilDateComponents(date) == ComponentsAt(date - 3 * 60 * 60)

\* `${c.year}-${c.month}-${c.day}`, zero-padded.
DateStringFrom(c) == [year |-> c.year, month |-> c.month, day |-> c.day]

\* 'YYYY-MM-DD' in Brazil time.
getBrazilDateString(date) == DateStringFrom(getBrazilDateComponents(date))

\* Wall-clock day number seen by an Intl.DateTimeFormat with
\* timeZone 'America/Sao_Paulo' (UTC-3, no daylight saving since 2019).
SaoPauloDay(date) == (date - 10800) \div 86400

\* Mutant: the weekday of the UTC day instead of the Brazil day.
getBrazilDayOfWeek_utc(date) == WeekDay(date \div 86400)

\* The declaration in force: the second one (Intl weekday), which replaces
\* the manual one declared before it under the same name.
getBrazilDayOfWeek(date) == WeekDay(SaoPauloDay(date))

\* 0-indexed month (0 = January).
getBrazilMonth(date) == CivilFromDays(SaoPauloDay(date)).month - 1

getBrazilDayOfMonth(date) == CivilFromDays(SaoPauloDay(date)).day

(***************************************************************************)
(* Draw calendar                                                           *)
(***************************************************************************)
\* Mutant: the month compared 1-indexed, so that no day is a closure.
IsClosure_oneIndexed(month, day) == (month = 12 /\ day = 25) \/ (month = 1 /\ day = 1)

\* Mutant: 24 December taken for a closure too.
IsClosure_eve(month, day) ==
    (month = 11 /\ (day = 24 \/ day = 25)) \/ (month = 0 /\ day = 1)

\* isChristmas || isNewYear
IsClosure(month, day) == (month = 11 /\ day = 25) \/ (month = 0 /\ day = 1)

isNoDrawDay(date) == IsClosure(getBrazilMonth(date), getBrazilDayOfMonth(date))

\* Mutant: 31 December forgotten.
IsEarly_only24(month, day) == month = 11 /\ day = 24

IsEarly(month, day) == month = 11 /\ (day = 24 \/ day = 31)

isEarlyDrawDay(date) == IsEarly(getBrazilMonth(date), getBrazilDayOfMonth(date))

getDrawTimeHour(date) == IF isEarlyDrawDay(date) THEN 17 ELSE 20

isValidDrawDay(date) ==
    LET isSunday == getBrazilDayOfWeek(date) = 0
    IN  ~isSunday /\ ~isNoDrawDay(date)

\* An input that is either a 'YYYY-MM-DD' string or a Date.
StringInput(dateStr) == [kind |-> "string", str |-> dateStr]
DateInput(t) == [kind |-> "Date", t |-> t]

\* Mutant: a Date input read by its UTC day (toISOString) instead of its Brazil day.
DateStrOf_utc(dateInput) ==
    IF dateInput.kind = "string" THEN dateInput.str
    ELSE toISODateString(dateInput.t)

\* typeof x === 'string' ? x.split('T')[0] : getBrazilDateString(x)
DateStrOf(dateInput) ==
    IF dateInput.kind = "string" THEN dateInput.str
    ELSE getBrazilDateString(dateInput.t)

\* cutoff.setSeconds(cutoff.getSeconds() - 1)
CutoffOf(zone, cutoff) == setSeconds(zone, cutoff, getSeconds(zone, cutoff) - 1)

\* regStartDate.setDate(regStartDate.getDate() - 1), then 20:00:01 of its day
RegStartOf(zone, regStartDate) ==
    ParseDate(
        getBrazilDateString(setDate(zone, regStartDate, getDate(zone, regStartDate) - 1)),
        20, 0, 1, -10800)

ScheduleAt(zone, dateStr, drawDate, drawHour) ==
    [drawDate |-> drawDate,
     drawHour |-> drawHour,
     cutoff   |-> CutoffOf(zone, ParseDate(dateStr, drawHour, 0, 0, -10800)),
     regStart |-> RegStartOf(zone, drawDate)]

ScheduleOn(zone, dateStr, drawDate) ==
    ScheduleAt(zone, dateStr, drawDate, getDrawTimeHour(drawDate))

ScheduleForString(zone, dateStr) ==
    ScheduleOn(zone, dateStr, ParseDate(dateStr, 0, 0, 0, -10800))

buildScheduleForDate(zone, dateInput) == ScheduleForString(zone, DateStrOf(dateInput))

\* Scan forward from fromDate's local midnight, fromDate's day included.
RECURSIVE NextValidProbe(_, _, _)
TestValidProbe(zone, probe, i) ==
    IF isValidDrawDay(probe) THEN [error |-> "", date |-> probe]
    ELSE NextValidProbe(zone, probe, i + 1)

NextValidProbe(zone, probe, i) ==
    IF i >= 14 THEN [error |-> "No valid draw date found in range"]
    ELSE IF i > 0
         THEN TestValidProbe(zone, setDate(zone, probe, getDate(zone, probe) + 1), i)
         ELSE TestValidProbe(zone, probe, i)

getNextValidDrawDate(zone, fromDate) ==
    NextValidProbe(zone, setHoursMidnight(zone, fromDate), 0)

\* The loop of getCurrentDrawSchedule: probe is advanced by one local day
\* per round and is carried from round to round.
RECURSIVE NextScheduleProbe(_, _, _, _)
TestScheduleProbe(zone, spNow, probe, i, probeStr) ==
    IF isValidDrawDay(ParseDate(probeStr, 0, 0, 0, -10800))
    THEN [error |-> "", now |-> spNow,
          schedule |-> buildScheduleForDate(zone, StringInput(probeStr))]
    ELSE NextScheduleProbe(zone, spNow, probe, i + 1)

AdvancedProbe(zone, spNow, probe, i) ==
    TestScheduleProbe(zone, spNow, probe, i, getBrazilDateString(probe))

NextScheduleProbe(zone, spNow, probe, i) ==
    IF i >= 14 THEN [error |-> "No valid draw date found"]
    ELSE AdvancedProbe(zone, spNow, setDate(zone, probe, getDate(zone, probe) + 1), i)

TodayOrNext(zone, spNow, today, schedule) ==
    IF isValidDrawDay(today) /\ spNow <= schedule.cutoff
    THEN [error |-> "", now |-> spNow, schedule |-> schedule]
    ELSE NextScheduleProbe(zone, spNow, today, 0)

ScheduleFromToday(zone, spNow, todayStr) ==
    TodayOrNext(zone, spNow, ParseDate(todayStr, 0, 0, 0, -10800),
        buildScheduleForDate(zone, StringInput(todayStr)))

\* spNow is the reading of getBrazilTime().
getCurrentDrawSchedule(zone, spNow) ==
    ScheduleFromToday(zone, spNow, getBrazilDateString(spNow))

(***************************************************************************)
(* Concurso numbering                                                      *)
(***************************************************************************)
CONCURSO_REFERENCE ==
    [number |-> 6903,
     date   |-> ParseDate([year |-> 2025, month |-> 12, day |-> 15], 0, 0, 0, -10800)]

\* The while loop: the cursor steps one UTC day at a time until it reaches
\* the target; each day stepped ONTO is tested.
\* The number of iterations: the loop goes on while the cursor is before the
\* target (step 1) or after it (step -1).
WalkSteps(cursor, targetDate, step) ==
    IF step = 1 /\ cursor < targetDate
    THEN (targetDate - cursor + 86399) \div 86400
    ELSE IF step = -1 /\ cursor > targetDate
    THEN (cursor - targetDate + 86399) \div 86400
    ELSE 0

\* The cursor of iteration k: setUTCDate(getUTCDate() + step) of the cursor
\* of the iteration before, which stands k - 1 UTC days from the start.
CursorAt(cursor, step, k) ==
    setUTCDate(cursor + (k - 1) * step * 86400,
               getUTCDate(cursor + (k - 1) * step * 86400) + step)

\* Mutant: every day stepped onto is counted, valid or not.
CountCursor_everyDay(cursor) == TRUE

\* if (isValidDrawDay(cursorBrazil)) daysDiff += 1
CountCursor(cursor) ==
    isValidDrawDay(ParseDate(toISODateString(cursor), 12, 0, 0, -10800))

ConcursoWalk(cursor, targetDate, step, daysDiff) ==
    daysDiff + Cardinality({k \in 1..WalkSteps(cursor, targetDate, step) :
                               CountCursor(CursorAt(cursor, step, k))})

\* Mutant: the sign of the walk forgotten.
ConcursoWithStep_unsigned(refDate, targetDate, step) ==
    CONCURSO_REFERENCE.number + ConcursoWalk(refDate, targetDate, step, 0)

ConcursoWithStep(refDate, targetDate, step) ==
    CONCURSO_REFERENCE.number + ConcursoWalk(refDate, targetDate, step, 0) * step

ConcursoBetween(refDate, targetDate) ==
    ConcursoWithStep(refDate, targetDate, IF targetDate >= refDate THEN 1 ELSE -1)

calculateConcurso(drawDate) ==
    ConcursoBetween(
        ParseDate(getBrazilDateString(CONCURSO_REFERENCE.date), 12, 0, 0, 0),
        ParseDate(DateStrOf(drawDate), 12, 0, 0, 0))

\* getDrawDate() followed by calculateConcurso(drawDate), as confirmEntry and
\* the page's ticket views do; current is the reading of the schedule.
ConcursoOfSchedule(current) ==
    IF current.error # "" THEN [error |-> current.error]
    ELSE [error    |-> "",
          drawDate |-> current.schedule.drawDate,
          cutoff   |-> current.schedule.cutoff,
          value    |-> calculateConcurso(DateInput(current.schedule.drawDate))]

currentConcurso(zone, spNow) ==
    ConcursoOfSchedule(getCurrentDrawSchedule(zone, spNow))

(***************************************************************************)
(* LotteryValidator (admin/validator.js).  A JavaScript value that may be  *)
(* missing is undefined or a string; a contest identifier is the number    *)
(* its digits spell (identifiers of one length order as their numbers do); *)
(* neither a platform, a contest nor a draw date holds an underscore, so   *)
(* the key `${contest}_${drawDate}` is the pair of its parts.              *)
(***************************************************************************)
undefined == [kind |-> "undefined"]

null == [kind |-> "null"]

(***************************************************************************)
(* retryWithBackoff (part_000).  fn is called and awaited; between two     *)
(* attempts the function awaits a timer.                                   *)
(***************************************************************************)
\* No retryWithBackoff is running.
NoRetry ==
    [pc |-> "idle", maxRetries |-> 0, baseDelay |-> 0, i |-> 0, delay |-> 0,
     calls |-> <<>>, outcome |-> [kind |-> "none"]]

\* String.prototype.includes
StringIncludes(s, marker) ==
    \E k \in 1..(Len(s) - Len(marker) + 1) :
        SubSeq(s, k, k + Len(marker) - 1) = marker

RetryableMarkers ==
    {"Too Many Requests", "429", "503", "timeout", "Network", "Failed to fetch"}

\* error.message?.includes(...) || ... of the six markers.
shouldRetry(error) ==
    /\ error.message # undefined
    /\ \E marker \in RetryableMarkers : StringIncludes(error.message.str, marker)

\* Mutant: no attempt is taken for the last one.
IsLastAttempt_never(r) == FALSE

\* i === maxRetries - 1
IsLastAttempt(r) == r.i = r.maxRetries - 1

\* The loop is entered, or entered again, with r.i: fn is called when
\* i < maxRetries, and the function returns undefined when the loop ends.
EnterLoop(r) ==
    IF r.i < r.maxRetries THEN [r EXCEPT !.pc = "awaitFn"]
    ELSE [r EXCEPT !.pc = "returned", !.outcome = [kind |-> "fulfilled", value |-> undefined]]

\* retryWithBackoff(fn, maxRetries, baseDelay) up to its first await.
retryWithBackoff(maxRetries, baseDelay) ==
    EnterLoop([NoRetry EXCEPT !.maxRetries = maxRetries, !.baseDelay = baseDelay])

\* The catch block: the error of attempt r.i is thrown or the timer is set.
Caught(r, error, jitter) ==
    IF IsLastAttempt(r) \/ ~shouldRetry(error)
    THEN [r EXCEPT !.pc = "thrown", !.outcome = [kind |-> "rejected", error |-> error]]
    ELSE [r EXCEPT !.pc = "awaitTimer", !.delay = r.baseDelay * (r.i + 1) + jitter]

\* await fn() has settled with settled; jitter is Math.random() * 500.
Settled(r, settled, jitter) ==
    IF settled.kind = "fulfilled"
    THEN [r EXCEPT !.pc = "returned", !.outcome = settled]
    ELSE Caught(r, settled.error, jitter)

\* The timer has fired: i++ and the loop condition.
AfterDelay(r) == EnterLoop([r EXCEPT !.i = r.i + 1, !.delay = 0])

\* An array, where null may stand in its place.
ArrayValue(items) == [kind |-> "array", items |-> items]

StringValue(s) == [kind |-> "string", str |-> s]

\* ToBoolean of a value that is undefined or a string.
ToBoolean(v) == v.kind = "string" /\ v.str # ""

\* String.prototype.trim on the strings the entries carry.
trim(s) ==
    CASE s = " validado " -> "validado"
      [] s = " valid " -> "valid"
      [] s = "  " -> ""
      [] OTHER -> s

\* String.prototype.toUpperCase on the trimmed strings the entries carry.
toUpperCase(s) ==
    CASE s = "validado" -> "VALIDADO"
      [] s = "valid" -> "VALID"
      [] s = "invalid" -> "INVALID"
      [] s = "inválido" -> "INVÁLIDO"
      [] s = "pending" -> "PENDING"
      [] OTHER -> s

\* s.toString().trim().toUpperCase()
TrimUpper(s) == toUpperCase(trim(s))

\* Array.prototype.includes
includes(array, x) == \E i \in DOMAIN array : array[i] = x

allowedValidStatuses == <<"VALID", "VALIDATED", "VALIDADO">>

blockedPendingStatuses == <<"GENERATED", "PENDING", "ALL PENDING">>

\* The state of a new LotteryValidator: contestResults = {}.
NoResults == [key \in {} |-> undefined]

ResultKey(contest, drawDate) == <<contest, drawDate>>

\* this.contestResults[key] = {...}
StoreResult(store, r, savedAt) ==
    [key \in DOMAIN store \cup {ResultKey(r.contest, r.drawDate)} |->
        IF key = ResultKey(r.contest, r.drawDate)
        THEN [contest |-> r.contest, drawDate |-> r.drawDate,
              winningNumbers |-> r.winningNumbers, savedAt |-> savedAt]
        ELSE store[key]]

RECURSIVE StoreResultsFrom(_, _, _, _)
StoreResultsFrom(results, i, store, savedAt) ==
    IF i > Len(results) THEN store
    ELSE StoreResultsFrom(results, i + 1,
                          StoreResult(store, results[i], savedAt), savedAt)

\* The contestResults after setResults(results), called at instant savedAt.
setResults(results, savedAt) == StoreResultsFrom(results, 1, NoResults, savedAt)

getContestResult(store, contest, drawDate) ==
    IF ResultKey(contest, drawDate) \in DOMAIN store
    THEN store[ResultKey(contest, drawDate)]
    ELSE undefined

\* The body of the forEach of matchNumbers, pushing at the front instead.
MatchStep_unshift(acc, num, winningNumbers) ==
    IF includes(winningNumbers, num)
    THEN [count |-> acc.count + 1, matchedNumbers |-> <<num>> \o acc.matchedNumbers]
    ELSE acc

\* The body of the forEach of matchNumbers.
MatchStep(acc, num, winningNumbers) ==
    IF includes(winningNumbers, num)
    THEN [count |-> acc.count + 1, matchedNumbers |-> Append(acc.matchedNumbers, num)]
    ELSE acc

RECURSIVE MatchFrom(_, _, _, _)
MatchFrom(chosenNumbers, winningNumbers, i, acc) ==
    IF i > Len(chosenNumbers) THEN acc
    ELSE MatchFrom(chosenNumbers, winningNumbers, i + 1,
                   MatchStep(acc, chosenNumbers[i], winningNumbers))

matchNumbers(chosenNumbers, winningNumbers) ==
    MatchFrom(chosenNumbers, winningNumbers, 1,
              [count |-> 0, matchedNumbers |-> <<>>])

\* getPrizeTier without its case 2.
getPrizeTier_noConsolation(matchCount) ==
    CASE matchCount = 5 ->
           [tier |-> "GRAND PRIZE", color |-> "gold", priority |-> 1, badge |-> "badge-gold"]
      [] matchCount = 4 ->
           [tier |-> "2nd PRIZE", color |-> "silver", priority |-> 2, badge |-> "badge-silver"]
      [] matchCount = 3 ->
           [tier |-> "3rd PRIZE", color |-> "#CD7F32", priority |-> 3, badge |-> "badge-bronze"]
      [] OTHER ->
           [tier |-> "NO PRIZE", color |-> "gray", priority |-> 5, badge |-> ""]

getPrizeTier(matchCount) ==
    CASE matchCount = 5 ->
           [tier |-> "GRAND PRIZE", color |-> "gold", priority |-> 1, badge |-> "badge-gold"]
      [] matchCount = 4 ->
           [tier |-> "2nd PRIZE", color |-> "silver", priority |-> 2, badge |-> "badge-silver"]
      [] matchCount = 3 ->
           [tier |-> "3rd PRIZE", color |-> "#CD7F32", priority |-> 3, badge |-> "badge-bronze"]
      [] matchCount = 2 ->
           [tier |-> "CONSOLATION", color |-> "green", priority |-> 4, badge |-> "badge-green"]
      [] OTHER ->
           [tier |-> "NO PRIZE", color |-> "gray", priority |-> 5, badge |-> ""]

\* The validity gate stopping only at INVALID.
ValidityBlocks_onlyInvalid(entry) ==
    ToBoolean(entry.validity) /\ TrimUpper(entry.validity.str) = "INVALID"

\* The entry carries a validity (lines 55-56) that is not VALID (58, 69).
ValidityBlocks(entry) ==
    ToBoolean(entry.validity) /\ TrimUpper(entry.validity.str) # "VALID"

\* The outcome of the validity gate (lines 58-76).
ValidityRejection(entry, validity) ==
    IF validity = "INVALID"
    THEN [validated |-> FALSE,
          message |-> IF ToBoolean(entry.invalidReasonCode)
                      THEN <<"Recharge validation failed: ", entry.invalidReasonCode.str>>
                      ELSE <<"Ticket failed recharge validation. Winner check not allowed.">>,
          gate |-> "RECHARGE_INVALID",
          validity |-> validity]
    ELSE [validated |-> FALSE,
          message |-> <<"Ticket validity unknown. Winner check not allowed.">>,
          gate |-> "VALIDITY_UNKNOWN",
          validity |-> validity]

\* entry.status || entry.csvStatus || ''
StatusRaw(entry) ==
    IF ToBoolean(entry.status) THEN entry.status.str
    ELSE IF ToBoolean(entry.csvStatus) THEN entry.csvStatus.str
    ELSE ""

\* The lookup made on drawDate alone.
LookupResult_anyContest(store, entry) ==
    IF \E key \in DOMAIN store : key[2] = entry.drawDate
    THEN store[CHOOSE key \in DOMAIN store : key[2] = entry.drawDate]
    ELSE undefined

\* this.getContestResult(entry.contest, entry.drawDate)
LookupResult(store, entry) ==
    getContestResult(store, entry.contest, entry.drawDate)

\* The outcome of a match (lines 120-129).
MatchOutcome(matchResult, result) ==
    [validated |-> TRUE,
     matches |-> matchResult.count,
     matchedNumbers |-> matchResult.matchedNumbers,
     prizeTier |-> getPrizeTier(matchResult.count),
     winningNumbers |-> result.winningNumbers]

\* Lines 112-129: the lookup and the match.
WinnerCheck(entry, result) ==
    IF result = undefined
    THEN [validated |-> FALSE,
          message |-> <<"No winning numbers set for this contest">>]
    ELSE MatchOutcome(matchNumbers(entry.chosenNumbers, result.winningNumbers),
                      result)

\* Lines 83-129: the manual status check, then the lookup and the match.
StatusCheck(store, entry, status) ==
    IF status = "INVALID" \/ status = "INVÁLIDO"
    THEN [validated |-> FALSE,
          message |-> IF ToBoolean(entry.invalidReasonCode)
                      THEN <<"Ticket rejected: ", entry.invalidReasonCode.str>>
                      ELSE <<"Ticket status is INVALID. Winner check is not allowed.">>,
          gate |-> "STATUS_INVALID",
          status |-> status]
    ELSE IF \/ includes(blockedPendingStatuses, status)
            \/ (status # "" /\ ~includes(allowedValidStatuses, status))
    THEN [validated |-> FALSE,
          message |-> <<"Ticket is not validated. Winner check is not allowed.">>,
          gate |-> "STATUS_NOT_VALIDATED",
          status |-> status]
    ELSE WinnerCheck(entry, LookupResult(store, entry))

\* validateEntry(entry) of a validator whose contestResults is store.
validateEntry(store, entry) ==
    IF ValidityBlocks(entry)
    THEN ValidityRejection(entry, TrimUpper(entry.validity.str))
    ELSE StatusCheck(store, entry, TrimUpper(StatusRaw(entry)))

\* The filter of getWinners turning away only the statuses INVALID.
IsEligible_notInvalid(e) ==
    ~includes(<<"INVALID", "INVÁLIDO">>,
              TrimUpper(IF ToBoolean(e.status) THEN e.status.str ELSE ""))

\* The filter of getWinners (lines 144-147).
IsEligible(e) ==
    includes(allowedValidStatuses,
             TrimUpper(IF ToBoolean(e.status) THEN e.status.str ELSE ""))

\* The grouping key without the platform.
GroupKey_noPlatform(entry) == <<"", entry.contest, entry.drawDate>>

\* `${entry.platform}_${entry.contest}_${entry.drawDate}`
GroupKey(entry) == <<entry.platform, entry.contest, entry.drawDate>>

\* The keys of grouped, in the order of their insertion.
RECURSIVE GroupKeysFrom(_, _, _)
GroupKeysFrom(eligible, i, keys) ==
    IF i > Len(eligible) THEN keys
    ELSE GroupKeysFrom(eligible, i + 1,
                       IF includes(keys, GroupKey(eligible[i])) THEN keys
                       ELSE Append(keys, GroupKey(eligible[i])))

\* { ...entry, validation }: the copy of the entry is kept as one field.
WithValidation(store, members) ==
    [i \in DOMAIN members |->
        [entry |-> members[i], validation |-> validateEntry(store, members[i])]]

\* grouped[key]
GroupOf(store, eligible, key) ==
    LET InGroup(e) == GroupKey(e) = key
    IN  WithValidation(store, SelectSeq(eligible, InGroup))

Max(a, b) == IF a >= b THEN a ELSE b

RECURSIVE WinningLevelFrom(_, _, _)
WinningLevelFrom(group, i, highest) ==
    IF i > Len(group) THEN highest
    ELSE WinningLevelFrom(group, i + 1,
                          IF group[i].validation.validated
                          THEN Max(highest, group[i].validation.matches)
                          ELSE highest)

getWinningLevel(group) == WinningLevelFrom(group, 1, 0)

\* The filter of line 166 keeping every validated member that matched.
IsLevelWinner_anyMatch(e, winningLevel) ==
    e.validation.validated /\ e.validation.matches > 0

\* The filter of line 166.
IsLevelWinner(e, winningLevel) ==
    e.validation.validated /\ e.validation.matches = winningLevel

\* { ...w, winningLevel }
WithLevel(levelWinners, winningLevel) ==
    [i \in DOMAIN levelWinners |->
        [entry |-> levelWinners[i].entry,
         validation |-> levelWinners[i].validation,
         winningLevel |-> winningLevel]]

\* The winners that one group adds (lines 162-169).
LevelWinners(group, winningLevel) ==
    IF winningLevel = 0 THEN <<>>
    ELSE LET AtLevel(e) == IsLevelWinner(e, winningLevel)
         IN  WithLevel(SelectSeq(group, AtLevel), winningLevel)

GroupWinners(group) == LevelWinners(group, getWinningLevel(group))

RECURSIVE WinnersFrom(_, _, _, _, _)
WinnersFrom(store, eligible, keys, i, winners) ==
    IF i > Len(keys) THEN winners
    ELSE WinnersFrom(store, eligible, keys, i + 1,
                     winners \o GroupWinners(GroupOf(store, eligible, keys[i])))

\* The comparator with the matches as first key and the contest as second.
CompareWinners_matchesFirst(a, b) ==
    IF a.validation.matches # b.validation.matches
    THEN b.validation.matches - a.validation.matches
    ELSE IF a.entry.contest = b.entry.contest THEN 0
    ELSE IF a.entry.contest > b.entry.contest THEN 1 ELSE -1

\* The comparator of the final sort (lines 172-175).
CompareWinners(a, b) ==
    IF a.entry.contest = b.entry.contest
    THEN b.validation.matches - a.validation.matches
    ELSE IF a.entry.contest > b.entry.contest THEN 1 ELSE -1

\* Array.prototype.sort is stable: w goes behind every winner that does not
\* compare greater than it.
InsertWinner(sorted, w, n) ==
    SubSeq(sorted, 1, n) \o <<w>> \o SubSeq(sorted, n + 1, Len(sorted))

RECURSIVE SortWinnersFrom(_, _, _)
SortWinnersFrom(winners, i, sorted) ==
    IF i > Len(winners) THEN sorted
    ELSE SortWinnersFrom(winners, i + 1,
            InsertWinner(sorted, winners[i],
                Cardinality({j \in DOMAIN sorted :
                                CompareWinners(sorted[j], winners[i]) <= 0})))

WinnersOfEligible(store, eligible) ==
    SortWinnersFrom(
        WinnersFrom(store, eligible, GroupKeysFrom(eligible, 1, <<>>), 1, <<>>),
        1, <<>>)

\* getWinners(entries) of a validator whose contestResults is store.
getWinners(store, entries) ==
    WinnersOfEligible(store, SelectSeq(entries, IsEligible))

\* The entry after `entry.validation = validation` in the place of the copy.
EntryAfterSpread_assigned(entry, validation) ==
    [f \in DOMAIN entry \cup {"validation"} |->
        IF f = "validation" THEN validation ELSE entry[f]]

\* The entry after { ...entry, validation } (line 156): the spread reads the
\* entry and builds another object.
EntryAfterSpread(entry, validation) == entry

\* The array given to getWinners after the call: filter builds another array
\* (line 144), the sort (line 172) orders the array of the copies.
InputAfterGetWinners(store, entries) ==
    [i \in DOMAIN entries |->
        IF IsEligible(entries[i])
        THEN EntryAfterSpread(entries[i], validateEntry(store, entries[i]))
        ELSE entries[i]]

(***************************************************************************)
(* Inputs                                                                  *)
(***************************************************************************)
\* Civil (UTC-3) day number of the reference date.
RefDay == SaoPauloDay(CONCURSO_REFERENCE.date)
RefYear == CivilFromDays(RefDay).year

\* The days around the reference date.
WindowDays == (RefDay - DaysBefore)..(RefDay + DaysAfter)

\* The closures and early draws at the end of the years around.
YearEndDays ==
    UNION { { DaysFromCivil(y, 12, 24), DaysFromCivil(y, 12, 25),
              DaysFromCivil(y, 12, 31), DaysFromCivil(y + 1, 1, 1) }
            : y \in (RefYear - YearsAround)..(RefYear + YearsAround) }

\* The days around the two daylight-saving changes nearest the reference.
TransitionDays ==
    UNION { (c \div 86400 - TransitionMargin)..(c \div 86400 + TransitionMargin)
            : c \in {DstEnd(RefYear), DstStart(RefYear + 1)} }

CalendarDays == WindowDays \cup YearEndDays \cup TransitionDays

\* Seconds after 00:00 UTC-3 at which a day is sampled: midnight, noon, the
\* seconds around both cutoffs, 21:00 (midnight UTC) and the day's last second.
TimesOfDay ==
    {0, 43200, 61198, 61199, 61200, 71998, 71999, 72000, 72001, 75600, 86399}

\* The instant s seconds into civil (UTC-3) day d.
InstantOf(d, s) == d * 86400 + 10800 + s

DateStringOf(d) == CivilFromDays(d)

\* A date given as a string, or as a Date at some time of its civil day.
InputsOf(d) ==
    {StringInput(DateStringOf(d))}
        \cup {DateInput(InstantOf(d, s)) : s \in {0, 75600}}

\* The least element of a non-empty set of integers.
Least(S) == CHOOSE x \in S : \A y \in S : x <= y

\* The clock is read at the sampled times of the sampled days.
ClockStart == InstantOf(Least(CalendarDays), Least(TimesOfDay))

NoCall == [op |-> "none"]

\* fetchEntries has not been invoked.
NoFetch ==
    [lockHeld |-> FALSE, started |-> FALSE, cached |-> null, returned |-> null]

\* confirmEntry has not been invoked.
NoClick == [result |-> "none", wasSubmitting |-> FALSE, started |-> FALSE]

(***************************************************************************)
(* The state machine: the page is loaded in some time zone; it calls one   *)
(* calendar operation at a time and takes its result; the clock advances.  *)
(***************************************************************************)
Init ==
    /\ tz \in TimeZones
    /\ now = ClockStart
    /\ op = "none"
    /\ arg = NoCall
    /\ res = NoCall
    /\ prev = NoCall
    /\ contestResults = NoResults
    /\ inputEntries = <<>>
    /\ cacheWinners = [data |-> null, entriesHash |-> null, resultsHash |-> null]
    /\ retry = NoRetry
    /\ isSubmitting = FALSE
    /\ submissions = <<>>
    /\ lastClick = NoClick
    /\ fetchLock = [entries |-> FALSE, recharges |-> FALSE]
    /\ cacheEntries = [data |-> null, timestamp |-> 0]
    /\ fetches = <<>>
    /\ lastFetch = NoFetch

CallIsValidDrawDay ==
    /\ op = "none"
    /\ \E d \in CalendarDays, s \in {0, 43200, 86399} :
        /\ arg' = DateInput(InstantOf(d, s))
        /\ res' = [value |-> isValidDrawDay(InstantOf(d, s))]
    /\ op' = "isValidDrawDay"
    /\ prev' = NoCall
    /\ UNCHANGED <<tz, now, contestResults, heapVars, cacheVars, retryVars, submitVars, fetchVars>>

CallIsEarlyDrawDay ==
    /\ op = "none"
    /\ \E d \in CalendarDays, s \in {0, 43200, 86399} :
        /\ arg' = DateInput(InstantOf(d, s))
        /\ res' = [value |-> isEarlyDrawDay(InstantOf(d, s))]
    /\ op' = "isEarlyDrawDay"
    /\ prev' = NoCall
    /\ UNCHANGED <<tz, now, contestResults, heapVars, cacheVars, retryVars, submitVars, fetchVars>>

CallGetDrawTimeHour ==
    /\ op = "none"
    /\ \E d \in CalendarDays, s \in {0, 43200, 86399} :
        /\ arg' = DateInput(InstantOf(d, s))
        /\ res' = [value |-> getDrawTimeHour(InstantOf(d, s))]
    /\ op' = "getDrawTimeHour"
    /\ prev' = NoCall
    /\ UNCHANGED <<tz, now, contestResults, heapVars, cacheVars, retryVars, submitVars, fetchVars>>

CallBuildScheduleForDate ==
    /\ op = "none"
    /\ \E d \in CalendarDays : \E input \in InputsOf(d) :
        /\ arg' = input
        /\ res' = buildScheduleForDate(tz, input)
    /\ op' = "buildScheduleForDate"
    /\ prev' = NoCall
    /\ UNCHANGED <<tz, now, contestResults, heapVars, cacheVars, retryVars, submitVars, fetchVars>>

CallGetNextValidDrawDate ==
    /\ op = "none"
    /\ \E d \in CalendarDays, s \in {0, 43200, 75600, 86399} :
        /\ arg' = DateInput(InstantOf(d, s))
        /\ res' = getNextValidDrawDate(tz, InstantOf(d, s))
    /\ op' = "getNextValidDrawDate"
    /\ prev' = NoCall
    /\ UNCHANGED <<tz, now, contestResults, heapVars, cacheVars, retryVars, submitVars, fetchVars>>

\* prev keeps the calculateConcurso call made just before, if any.
CallCalculateConcurso ==
    /\ op = "none"
    /\ \E d \in WindowDays : \E input \in InputsOf(d) :
        /\ arg' = input
        /\ res' = [value |-> calculateConcurso(input)]
    /\ op' = "calculateConcurso"
    /\ UNCHANGED <<tz, now, prev, contestResults, heapVars, cacheVars, retryVars, submitVars, fetchVars>>

\* The caller takes the result; the page is idle again.
Return ==
    /\ op # "none"
    /\ op' = "none"
    /\ arg' = NoCall
    /\ res' = NoCall
    /\ prev' = IF op = "calculateConcurso" THEN [arg |-> arg, res |-> res]
               ELSE NoCall
    /\ inputEntries' = <<>>
    /\ UNCHANGED <<tz, now, contestResults, cacheVars, retryVars, submitVars, fetchVars>>

Next ==
    \/ CallIsValidDrawDay
    \/ CallIsEarlyDrawDay
    \/ CallGetDrawTimeHour
    \/ CallBuildScheduleForDate
    \/ CallGetNextValidDrawDate
    \/ CallCalculateConcurso
    \/ Return

Spec == Init /\ [][Next]_vars

\* The sampled instants after t: later today, or on the next sampled day.
LaterToday(t) ==
    {s \in TimesOfDay : s > (t - 10800) % 86400}

LaterDays(t) == {d \in CalendarDays : d > SaoPauloDay(t)}

\* The clock moves forward to the next sampled instant.
Tick ==
    /\ LaterToday(now) # {} \/ LaterDays(now) # {}
    /\ now' = IF LaterToday(now) # {}
              THEN InstantOf(SaoPauloDay(now), Least(LaterToday(now)))
              ELSE InstantOf(Least(LaterDays(now)), Least(TimesOfDay))
    /\ op' = "none"
    /\ arg' = NoCall
    /\ res' = NoCall
    /\ prev' = IF op = "currentConcurso" THEN [arg |-> arg, res |-> res]
               ELSE NoCall
    /\ UNCHANGED <<tz, contestResults, heapVars, cacheVars, retryVars, submitVars, fetchVars>>

CallGetCurrentDrawSchedule ==
    /\ op' = "getCurrentDrawSchedule"
    /\ arg' = DateInput(now)
    /\ res' = getCurrentDrawSchedule(tz, now)
    /\ UNCHANGED <<tz, now, prev, contestResults, heapVars, cacheVars, retryVars, submitVars, fetchVars>>

\* The concurso of the current draw is read while the clock is within
\* ConcursoReach days of the reference day; prev keeps the reading taken at
\* the sampled instant before.
CallCurrentConcurso ==
    /\ SaoPauloDay(now) \in (RefDay - ConcursoReach)..(RefDay + ConcursoReach)
    /\ op' = "currentConcurso"
    /\ arg' = DateInput(now)
    /\ res' = currentConcurso(tz, now)
    /\ prev' = IF op = "currentConcurso" THEN [arg |-> arg, res |-> res]
               ELSE prev
    /\ UNCHANGED <<tz, now, contestResults, heapVars, cacheVars, retryVars, submitVars, fetchVars>>

NextClock ==
    \/ Tick
    \/ CallGetCurrentDrawSchedule
    \/ CallCurrentConcurso

SpecClock == Init /\ [][NextClock]_vars

(***************************************************************************)
(* The admin page: results are stored in the validator, entries are        *)
(* validated and winners are computed, one call at a time.                 *)
(***************************************************************************)
\* Two contests and their draw dates.
ContestA == CONCURSO_REFERENCE.number
ContestB == CONCURSO_REFERENCE.number + 1
DrawDateA == "2025-12-15"
DrawDateB == "2025-12-16"

Platforms == {"POPN1", "POPLUZ"}

\* The numbers 1..maxNumbers, and the next maxNumbers numbers.
FirstNumbers == [i \in 1..maxNumbers |-> i]
NextNumbers == [i \in 1..maxNumbers |-> i + maxNumbers]

\* A ticket of maxNumbers numbers of which just the first k are among
\* FirstNumbers and the other ones among NextNumbers.
ChosenOf(k) == [i \in 1..maxNumbers |-> IF i <= k THEN i ELSE i + maxNumbers]

\* The results that may be handed to setResults.
ResultPool ==
    { [contest |-> ContestA, drawDate |-> DrawDateA, winningNumbers |-> FirstNumbers],
      [contest |-> ContestA, drawDate |-> DrawDateA, winningNumbers |-> NextNumbers],
      [contest |-> ContestB, drawDate |-> DrawDateB, winningNumbers |-> FirstNumbers] }

ResultLists == UNION { [1..n -> ResultPool] : n \in 0..MaxResults }

\* Short lists of small numbers, and the lists of the documented example.
NumberLists ==
    UNION { [1..n -> 1..MaxNumber] : n \in 0..MaxPick }
        \cup { <<10, 20, 30, 40, 50>>, <<10, 20, 99, 98, 97>> }

StatusValues ==
    {undefined} \cup
    { StringValue(s) : s \in {"", "  ", "VALID", "VALIDATED", " validado ",
                              "INVALID", "inválido", "PENDING", "GENERATED",
                              "ALL PENDING", "REJECTED"} }

CsvStatusValues == {undefined, StringValue("VALID"), StringValue("PENDING")}

ValidityValues ==
    {undefined} \cup
    { StringValue(s) : s \in {"", "  ", "VALID", " valid ", "INVALID",
                              "invalid", "UNKNOWN"} }

ReasonCodes == {undefined, StringValue("NO_RECHARGE")}

ContestDates ==
    {<<ContestA, DrawDateA>>, <<ContestB, DrawDateB>>, <<ContestA, DrawDateB>>}

Entry(platform, contestDate, k, status, csvStatus, validity, reason) ==
    [platform |-> platform,
     contest |-> contestDate[1],
     drawDate |-> contestDate[2],
     chosenNumbers |-> ChosenOf(k),
     status |-> status,
     csvStatus |-> csvStatus,
     validity |-> validity,
     invalidReasonCode |-> reason]

\* An entry approved by hand, without validity.
ApprovedEntry(platform, contestDate, k) ==
    Entry(platform, contestDate, k, StringValue("VALID"), undefined, undefined,
          undefined)

\* The entries getWinners is given: approved entries of both platforms and
\* contests with three and four matches, and of the first platform an entry
\* without a match, a pending one, one whose status is written in lower case,
\* one that failed the recharge validation and one of another draw date.
WinnerPool ==
    { ApprovedEntry(p, cd, k) :
        p \in Platforms,
        cd \in {<<ContestA, DrawDateA>>, <<ContestB, DrawDateB>>},
        k \in {maxNumbers - 2, maxNumbers - 1} }
    \cup
    { ApprovedEntry("POPN1", <<ContestA, DrawDateA>>, 0),
      ApprovedEntry("POPN1", <<ContestA, DrawDateB>>, maxNumbers),
      Entry("POPN1", <<ContestA, DrawDateA>>, maxNumbers, StringValue("PENDING"),
            undefined, undefined, undefined),
      Entry("POPN1", <<ContestA, DrawDateA>>, maxNumbers - 1,
            StringValue(" validado "), undefined, undefined, undefined),
      Entry("POPN1", <<ContestA, DrawDateA>>, maxNumbers, StringValue("VALID"),
            undefined, StringValue("INVALID"), StringValue("NO_RECHARGE")) }

EntryLists == UNION { [1..n -> WinnerPool] : n \in 0..MaxEntries }

CallSetResults ==
    /\ op = "none"
    /\ \E results \in ResultLists :
        /\ arg' = [results |-> results]
        /\ contestResults' = setResults(results, now)
    /\ op' = "setResults"
    /\ res' = [value |-> undefined]
    /\ prev' = NoCall
    /\ UNCHANGED <<tz, now, heapVars, cacheVars, retryVars, submitVars, fetchVars>>

CallMatchNumbers ==
    /\ op = "none"
    /\ \E chosenNumbers \in NumberLists, winningNumbers \in NumberLists :
        /\ arg' = [chosenNumbers |-> chosenNumbers,
                   winningNumbers |-> winningNumbers]
        /\ res' = matchNumbers(chosenNumbers, winningNumbers)
    /\ op' = "matchNumbers"
    /\ prev' = NoCall
    /\ UNCHANGED <<tz, now, contestResults, heapVars, cacheVars, retryVars, submitVars, fetchVars>>

CallGetPrizeTier ==
    /\ op = "none"
    /\ \E matchCount \in 0..MaxMatchCount :
        /\ arg' = [matchCount |-> matchCount]
        /\ res' = getPrizeTier(matchCount)
    /\ op' = "getPrizeTier"
    /\ prev' = NoCall
    /\ UNCHANGED <<tz, now, contestResults, heapVars, cacheVars, retryVars, submitVars, fetchVars>>

CallValidateEntry ==
    /\ op = "none"
    /\ \E p \in {"POPN1"}, cd \in ContestDates, k \in 0..maxNumbers,
          status \in StatusValues, csvStatus \in CsvStatusValues,
          validity \in ValidityValues, reason \in ReasonCodes :
        /\ arg' = [entry |-> Entry(p, cd, k, status, csvStatus, validity, reason)]
        /\ res' = validateEntry(contestResults,
                                Entry(p, cd, k, status, csvStatus, validity, reason))
        /\ inputEntries' = <<Entry(p, cd, k, status, csvStatus, validity, reason)>>
    /\ op' = "validateEntry"
    /\ prev' = NoCall
    /\ UNCHANGED <<tz, now, contestResults, cacheVars, retryVars, submitVars, fetchVars>>

CallGetWinners ==
    /\ op = "none"
    /\ \E entries \in EntryLists :
        /\ arg' = [entries |-> entries]
        /\ res' = [winners |-> getWinners(contestResults, entries)]
        /\ inputEntries' = InputAfterGetWinners(contestResults, entries)
    /\ op' = "getWinners"
    /\ prev' = NoCall
    /\ UNCHANGED <<tz, now, contestResults, cacheVars, retryVars, submitVars, fetchVars>>

\* The caller repeats the call with the entries it handed in before; prev
\* keeps the first call.
RepeatCall ==
    /\ op \in {"validateEntry", "getWinners"}
    /\ prev = NoCall
    /\ res' = IF op = "validateEntry"
              THEN validateEntry(contestResults, inputEntries[1])
              ELSE [winners |-> getWinners(contestResults, inputEntries)]
    /\ inputEntries' = IF op = "validateEntry" THEN inputEntries
                       ELSE InputAfterGetWinners(contestResults, inputEntries)
    /\ prev' = [arg |-> arg, res |-> res]
    /\ UNCHANGED <<tz, now, op, arg, contestResults, cacheVars, retryVars, submitVars, fetchVars>>

NextValidator ==
    \/ CallSetResults
    \/ CallMatchNumbers
    \/ CallGetPrizeTier
    \/ CallValidateEntry
    \/ CallGetWinners
    \/ RepeatCall
    \/ Return

\* validator.js reads no local time: the admin page is taken in one zone.
InitValidator == Init /\ tz = "America/Sao_Paulo"

SpecValidator == InitValidator /\ [][NextValidator]_vars

(***************************************************************************)
(* retryWithBackoff with a function that succeeds or fails as it likes.    *)
(***************************************************************************)
\* Errors fn may throw: the ones confirmEntry's request raises (HTTP status,
\* the server's error text, the browser's fetch failure), one of each marker,
\* and an error without message.
ThrownErrors ==
    { [message |-> StringValue(m)] :
        m \in {"Too Many Requests", "HTTP 429", "HTTP 503", "Gateway timeout",
               "NetworkError when attempting to fetch resource.",
               "Failed to fetch", "HTTP 500", "Request timed out",
               "Falha ao salvar bilhete"} }
        \cup {[message |-> undefined]}

FnOutcomes ==
    {[kind |-> "fulfilled", value |-> StringValue("result")]}
        \cup {[kind |-> "rejected", error |-> e] : e \in ThrownErrors}

\* Math.random() * 500 at its ends.
Jitters == {0, 499}

CallRetryWithBackoff ==
    /\ retry.pc = "idle"
    /\ \E maxRetries \in 0..MaxRetriesArg, baseDelay \in {0, 1000} :
        retry' = retryWithBackoff(maxRetries, baseDelay)
    /\ UNCHANGED <<tz, now, op, arg, res, prev, contestResults, heapVars, cacheVars, submitVars, fetchVars>>

\* The promise of fn() settles.
FnSettles ==
    /\ retry.pc = "awaitFn"
    /\ \E settled \in FnOutcomes, jitter \in Jitters :
        retry' = Settled([retry EXCEPT !.calls = Append(retry.calls, settled)],
                         settled, jitter)
    /\ UNCHANGED <<tz, now, op, arg, res, prev, contestResults, heapVars, cacheVars, submitVars, fetchVars>>

TimerFires ==
    /\ retry.pc = "awaitTimer"
    /\ retry' = AfterDelay(retry)
    /\ UNCHANGED <<tz, now, op, arg, res, prev, contestResults, heapVars, cacheVars, submitVars, fetchVars>>

\* The caller has taken the result or the error.
RetryDone ==
    /\ retry.pc \in {"returned", "thrown"}
    /\ retry' = NoRetry
    /\ UNCHANGED <<tz, now, op, arg, res, prev, contestResults, heapVars, cacheVars, submitVars, fetchVars>>

NextRetry ==
    \/ CallRetryWithBackoff
    \/ FnSettles
    \/ TimerFires
    \/ RetryDone

\* The timer fires, and fn is a request that comes to an end.
SpecRetry ==
    /\ InitValidator
    /\ [][NextRetry]_vars
    /\ WF_vars(FnSettles)
    /\ WF_vars(TimerFires)

(***************************************************************************)
(* confirmEntry (part_000): the form is validated, the ticket is stamped   *)
(* with the draw date and the concurso and sent, with retries.             *)
(***************************************************************************)
IsDigit(c) == c \in {"0", "1", "2", "3", "4", "5", "6", "7", "8", "9"}

AllDigits(s) == \A k \in 1..Len(s) : IsDigit(SubSeq(s, k, k))

\* GAME_ID_REGEX = /^[0-9]{10}$/
isValidGameId(id) == Len(id) = 10 /\ AllDigits(id)

\* WHATSAPP_REGEX = /^[0-9]{10,11}$/
isValidWhatsApp(number) == Len(number) \in {10, 11} /\ AllDigits(number)

\* value.replace(/\D/g, '')
RECURSIVE DigitsOf(_)
DigitsOf(s) ==
    IF s = "" THEN ""
    ELSE (IF IsDigit(SubSeq(s, 1, 1)) THEN SubSeq(s, 1, 1) ELSE "")
             \o DigitsOf(SubSeq(s, 2, Len(s)))

\* n.toString().padStart(2, '0')
PadStart2(n) == IF n < 10 THEN "0" \o ToString(n) ELSE ToString(n)

\* selectedNumbers.map(...).join(', ')
RECURSIVE JoinNumbers(_)
JoinNumbers(numbers) ==
    IF numbers = <<>> THEN ""
    ELSE IF Len(numbers) = 1 THEN PadStart2(numbers[1])
    ELSE PadStart2(numbers[1]) \o ", " \o JoinNumbers(Tail(numbers))

\* The exits of confirmEntry before the request: the first check that fails,
\* or "ok".
ValidationResult(form) ==
    IF ~isValidGameId(trim(form.gameId)) THEN "invalidGameId"
    ELSE IF ~form.optOut /\ ~isValidWhatsApp(DigitsOf(form.whatsapp))
    THEN "invalidWhatsApp"
    ELSE IF Len(form.selectedNumbers) < 5 \/ Len(form.selectedNumbers) > 20
    THEN "wrongNumberCount"
    ELSE IF toUpperCase(form.platform) = "" THEN "noPlatform"
    ELSE "ok"

\* getDrawDate(): the drawDate of one reading of the schedule.
getDrawDate(zone, spNow) == getCurrentDrawSchedule(zone, spNow).schedule.drawDate

\* requestBody, with drawDate = getDrawDate().
RequestBody(form, drawDate) ==
    [platform          |-> toUpperCase(form.platform),
     gameId            |-> trim(form.gameId),
     whatsappNumber    |-> IF form.optOut THEN "N/A"
                           ELSE "+55" \o DigitsOf(form.whatsapp),
     numerosEscolhidos |-> JoinNumbers(form.selectedNumbers),
     drawDate          |-> getBrazilDateString(drawDate),
     concurso          |-> calculateConcurso(DateInput(drawDate))]

\* Mutant: the body is built again for each attempt.
BodyForAttempt_rebuilt(sub, zone, spNow) ==
    RequestBody(sub.form, getDrawDate(zone, spNow))

\* The body an attempt sends: JSON.stringify(requestBody) of the body built
\* before retryWithBackoff was called.
BodyForAttempt(sub, zone, spNow) == sub.body

\* Mutant: the flag is not looked at.
AlreadySubmitting_never(flag) == FALSE

\* if (isSubmitting) return;
AlreadySubmitting(flag) == flag

\* The invocation that passed the checks, at its first await: the body is
\* built, retryWithBackoff(fn, 3, 1000) has called fn and fn has sent it.
Submission(form, zone, spNow) ==
    [form      |-> form,
     startedAt |-> spNow,
     body      |-> RequestBody(form, getDrawDate(zone, spNow)),
     retry     |-> retryWithBackoff(3, 1000),
     sent      |-> <<>>]

Sending(sub, zone, spNow) ==
    [sub EXCEPT !.sent = Append(sub.sent, BodyForAttempt(sub, zone, spNow))]

RemoveAt(seq, k) == SubSeq(seq, 1, k - 1) \o SubSeq(seq, k + 1, Len(seq))

\* A form that passes every check.
ValidForm ==
    [gameId          |-> "1234567890",
     optOut          |-> FALSE,
     whatsapp        |-> "(11) 99988-7766",
     selectedNumbers |-> <<1, 2, 3, 4, 5>>,
     platform        |-> "POPN1"]

\* What the form may hold: the valid form, with a WhatsApp number or without,
\* and the forms that fail one check each.
Forms ==
    { ValidForm,
      [ValidForm EXCEPT !.optOut = TRUE, !.whatsapp = ""],
      [ValidForm EXCEPT !.gameId = "12345"],
      [ValidForm EXCEPT !.whatsapp = "999"],
      [ValidForm EXCEPT !.selectedNumbers = <<1, 2, 3, 4>>],
      [ValidForm EXCEPT !.selectedNumbers = [n \in 1..21 |-> n]],
      [ValidForm EXCEPT !.platform = ""] }

\* What the ticket API answers: the ticket, an overload, a refusal.
SubmitOutcomes ==
    {[kind |-> "fulfilled", value |-> StringValue("result")],
     [kind |-> "rejected", error |-> [message |-> StringValue("HTTP 503")]],
     [kind |-> "rejected", error |-> [message |-> StringValue("Falha ao salvar bilhete")]]}

\* The next sampled instant of the clock, if there is one.
NextSampled(t) ==
    IF LaterToday(t) # {} THEN InstantOf(SaoPauloDay(t), Least(LaterToday(t)))
    ELSE IF LaterDays(t) # {} THEN InstantOf(Least(LaterDays(t)), Least(TimesOfDay))
    ELSE t

\* The button is clicked: confirmEntry runs up to its return or first await.
CallConfirmEntry ==
    /\ SaoPauloDay(now) \in WindowDays
    /\ Len(submissions) < MaxSubmissions
    /\ \E form \in Forms :
        IF AlreadySubmitting(isSubmitting)
        THEN /\ lastClick' = [result |-> "ignored", wasSubmitting |-> isSubmitting,
                              started |-> FALSE]
             /\ UNCHANGED <<isSubmitting, submissions, fetchVars>>
        ELSE IF ValidationResult(form) # "ok"
        THEN /\ lastClick' = [result |-> ValidationResult(form),
                              wasSubmitting |-> isSubmitting, started |-> FALSE]
             /\ isSubmitting' = FALSE
             /\ UNCHANGED submissions
        ELSE /\ lastClick' = [result |-> "sent", wasSubmitting |-> isSubmitting,
                              started |-> TRUE]
             /\ isSubmitting' = TRUE
             /\ submissions' =
                    Append(submissions, Sending(Submission(form, tz, now), tz, now))
    /\ UNCHANGED <<tz, now, op, arg, res, prev, contestResults, heapVars, cacheVars,
                   retryVars, fetchVars>>

\* The request of submission k comes to its end: the ticket is saved and the
\* page leaves for bilhete.html, or the error is shown, or the retry timer
\* is set; finally resets the flag on the first two.
ResponseArrives ==
    /\ \E k \in DOMAIN submissions, settled \in SubmitOutcomes, jitter \in Jitters :
        /\ submissions[k].retry.pc = "awaitFn"
        /\ IF Settled(submissions[k].retry, settled, jitter).pc = "awaitTimer"
           THEN /\ submissions' = [submissions EXCEPT ![k].retry =
                                       Settled(submissions[k].retry, settled, jitter)]
                /\ UNCHANGED isSubmitting
           ELSE /\ submissions' = RemoveAt(submissions, k)
                /\ isSubmitting' = FALSE
    /\ UNCHANGED <<tz, now, op, arg, res, prev, contestResults, heapVars, cacheVars,
                   retryVars, lastClick, fetchVars>>

\* The retry timer of submission k fires after its delay: the next attempt
\* sends the request, or the loop has ended and the invocation with it.
RetryTimerFires ==
    /\ \E k \in DOMAIN submissions :
        /\ submissions[k].retry.pc = "awaitTimer"
        /\ now' = NextSampled(now)
        /\ IF AfterDelay(submissions[k].retry).pc = "awaitFn"
           THEN /\ submissions' = [submissions EXCEPT ![k] =
                        Sending([submissions[k] EXCEPT !.retry = AfterDelay(submissions[k].retry)],
                                tz, NextSampled(now))]
                /\ UNCHANGED isSubmitting
           ELSE /\ submissions' = RemoveAt(submissions, k)
                /\ isSubmitting' = FALSE
    /\ UNCHANGED <<tz, op, arg, res, prev, contestResults, heapVars, cacheVars,
                   retryVars, lastClick, fetchVars>>

\* Time passes while nothing is being submitted.
IdleTick ==
    /\ submissions = <<>>
    /\ Tick

NextSubmit ==
    \/ CallConfirmEntry
    \/ ResponseArrives
    \/ RetryTimerFires
    \/ IdleTick

SpecSubmit == Init /\ [][NextSubmit]_vars

(***************************************************************************)
(* fetchEntries (admin/validator.js): the entries sheet is fetched under   *)
(* fetchLock.entries and parsed in batches.                                *)
(***************************************************************************)
CACHE_TTL == 180 * 1000

\* Date.now() at instant t, in milliseconds counted from the load of the page
\* (only differences of readings are used).
DateNow(t) == (t - ClockStart) * 1000

\* The entries parsed from a sheet, and the empty array.
EntriesOf(sheet) == [kind |-> "array", sheet |-> sheet.id, length |-> sheet.lines - 1]

EmptyArray == [kind |-> "array", sheet |-> "none", length |-> 0]

\* The sheet after split and filter(Boolean): an empty text, the header
\* alone, two rows, and rows for three batches.
Sheets ==
    { [id |-> "empty", lines |-> 0],
      [id |-> "header", lines |-> 1],
      [id |-> "small", lines |-> 3],
      [id |-> "large", lines |-> 2 * batchSize + 201] }

\* What await fetchCSV(ENTRIES_SHEET_URL) comes to.
FetchCSVOutcomes ==
    {[kind |-> "fulfilled", value |-> sheet] : sheet \in Sheets}
        \cup {[kind |-> "rejected", error |-> [message |-> StringValue(m)]] :
                m \in {"HTTP 500", "Sheet not publicly accessible",
                       "Request timed out - please try again"}}

\* !forceRefresh && cache.entries.data && (now - cache.entries.timestamp) < CACHE_TTL
CacheIsFresh(cached, forceRefresh, dateNow) ==
    /\ ~forceRefresh
    /\ cached.data # null
    /\ (dateNow - cached.timestamp) < CACHE_TTL

\* Mutant: the lock is not looked at.
LockHeld_never(lock) == FALSE

\* if (fetchLock.entries)
LockHeld(lock) == lock.entries

\* cache.entries.data || []
CachedOrEmpty(cached) == IF cached.data # null THEN cached.data ELSE EmptyArray

\* The invocation at await fetchCSV, with the Date.now() it read.
Fetching(dateNow) == [pc |-> "fetchCSV", now |-> dateNow, i |-> 0, sheet |-> null]

\* The batch that starts at line i is parsed; another batch follows after
\* a yield when i + batchSize < lines.length.
MoreBatches(f) == f.i + batchSize < f.sheet.lines

FetchTick ==
    /\ now + TickSeconds <= ClockStart + MaxElapsed
    /\ now' = now + TickSeconds
    /\ UNCHANGED <<tz, op, arg, res, prev, contestResults, heapVars, cacheVars,
                   retryVars, submitVars, fetchVars>>

\* fetchEntries(forceRefresh) up to its return or its first await.
CallFetchEntries ==
    /\ Len(fetches) < MaxFetches
    /\ \E forceRefresh \in BOOLEAN :
        IF CacheIsFresh(cacheEntries, forceRefresh, DateNow(now))
        THEN /\ lastFetch' = [lockHeld |-> fetchLock.entries, started |-> FALSE,
                              cached |-> cacheEntries.data,
                              returned |-> cacheEntries.data]
             /\ UNCHANGED <<fetchLock, fetches>>
        ELSE IF LockHeld(fetchLock)
        THEN /\ lastFetch' = [lockHeld |-> fetchLock.entries, started |-> FALSE,
                              cached |-> cacheEntries.data,
                              returned |-> CachedOrEmpty(cacheEntries)]
             /\ UNCHANGED <<fetchLock, fetches>>
        ELSE /\ lastFetch' = [lockHeld |-> fetchLock.entries, started |-> TRUE,
                              cached |-> cacheEntries.data, returned |-> null]
             /\ fetchLock' = [fetchLock EXCEPT !.entries = TRUE]
             /\ fetches' = Append(fetches, Fetching(DateNow(now)))
    /\ UNCHANGED <<tz, now, op, arg, res, prev, contestResults, heapVars, cacheVars,
                   retryVars, submitVars, cacheEntries>>

\* fetchCSV fails: the catch block releases the lock and returns the cached
\* entries or throws.
FetchCSVFails ==
    /\ \E k \in DOMAIN fetches, settled \in FetchCSVOutcomes :
        /\ fetches[k].pc = "fetchCSV"
        /\ settled.kind = "rejected"
        /\ fetches' = RemoveAt(fetches, k)
    /\ fetchLock' = [fetchLock EXCEPT !.entries = FALSE]
    /\ UNCHANGED <<tz, now, op, arg, res, prev, contestResults, heapVars, cacheVars,
                   retryVars, submitVars, cacheEntries, lastFetch>>

\* fetchCSV returns the sheet: an empty sheet is cached as [] at once, a
\* sheet of one batch is parsed and cached, a longer one yields after its
\* first batch with the lock held.
FetchCSVReturns ==
    /\ \E k \in DOMAIN fetches, settled \in FetchCSVOutcomes :
        /\ fetches[k].pc = "fetchCSV"
        /\ settled.kind = "fulfilled"
        /\ IF settled.value.lines <= 1
           THEN /\ cacheEntries' = [data |-> EmptyArray, timestamp |-> fetches[k].now]
                /\ fetchLock' = [fetchLock EXCEPT !.entries = FALSE]
                /\ fetches' = RemoveAt(fetches, k)
           ELSE IF MoreBatches([fetches[k] EXCEPT !.i = 1, !.sheet = settled.value])
           THEN /\ fetches' = [fetches EXCEPT ![k] =
                        [pc |-> "yield", now |-> fetches[k].now, i |-> 1,
                         sheet |-> settled.value]]
                /\ UNCHANGED <<cacheEntries, fetchLock>>
           ELSE /\ cacheEntries' = [data |-> EntriesOf(settled.value),
                                    timestamp |-> fetches[k].now]
                /\ fetchLock' = [fetchLock EXCEPT !.entries = FALSE]
                /\ fetches' = RemoveAt(fetches, k)
    /\ UNCHANGED <<tz, now, op, arg, res, prev, contestResults, heapVars, cacheVars,
                   retryVars, submitVars, lastFetch>>

\* The parsing goes on after a yield: i += batchSize, and the entries are
\* sorted and cached after the last batch.
BatchResumes ==
    /\ \E k \in DOMAIN fetches :
        /\ fetches[k].pc = "yield"
        /\ IF MoreBatches([fetches[k] EXCEPT !.i = fetches[k].i + batchSize])
           THEN /\ fetches' = [fetches EXCEPT ![k].i = fetches[k].i + batchSize]
                /\ UNCHANGED <<cacheEntries, fetchLock>>
           ELSE /\ cacheEntries' = [data |-> EntriesOf(fetches[k].sheet),
                                    timestamp |-> fetches[k].now]
                /\ fetchLock' = [fetchLock EXCEPT !.entries = FALSE]
                /\ fetches' = RemoveAt(fetches, k)
    /\ UNCHANGED <<tz, now, op, arg, res, prev, contestResults, heapVars, cacheVars,
                   retryVars, submitVars, lastFetch>>

NextFetch ==
    \/ FetchTick
    \/ CallFetchEntries
    \/ FetchCSVFails
    \/ FetchCSVReturns
    \/ BatchResumes

SpecFetch == InitValidator /\ [][NextFetch]_vars

(***************************************************************************)
(* The cache of winner computations (admin/validator.js, data fetcher).    *)
(***************************************************************************)
\* record?.ticketNumber || record?.contest || '' of the record at index i
\* (counted from 1) of items; the record is undefined when there is none.
FieldOrEmpty(items, i, field) ==
    IF i \in DOMAIN items /\ field \in DOMAIN items[i] THEN items[i][field]
    ELSE ""

IdentifierAt(items, i) ==
    IF FieldOrEmpty(items, i, "ticketNumber") # ""
    THEN FieldOrEmpty(items, i, "ticketNumber")
    ELSE FieldOrEmpty(items, i, "contest")

\* Mutant: the length alone.
simpleHash_lengthOnly(data) ==
    IF data = null THEN "" ELSE ToString(Len(data.items)) \o "--"

simpleHash(data) ==
    IF data = null THEN ""
    ELSE ToString(Len(data.items)) \o "-" \o IdentifierAt(data.items, 1)
             \o "-" \o IdentifierAt(data.items, Len(data.items))

setCachedWinners(data, entriesHash, resultsHash) ==
    [data |-> data, entriesHash |-> entriesHash, resultsHash |-> resultsHash]

\* isWinnersCacheValid(entries, results) with cache.winners = cached.
isWinnersCacheValid(cached, entries, results) ==
    IF cached.data = null THEN FALSE
    ELSE /\ cached.entriesHash = StringValue(simpleHash(entries))
         /\ cached.resultsHash = StringValue(simpleHash(results))

\* Entries as parseEntryRow builds them, with the fields the cache reads and
\* the status: two tickets, the second one pending and then approved.
CachedEntryPool ==
    { [ticketNumber |-> "T1", contest |-> "6903", status |-> "VALID"],
      [ticketNumber |-> "T2", contest |-> "6903", status |-> "PENDING"],
      [ticketNumber |-> "T2", contest |-> "6903", status |-> "VALID"] }

\* Results: two drawings of contest 6903 and one of contest 6904.
CachedResultPool ==
    { [contest |-> "6903", winningNumbers |-> FirstNumbers],
      [contest |-> "6903", winningNumbers |-> NextNumbers],
      [contest |-> "6904", winningNumbers |-> FirstNumbers] }

CachedEntryLists ==
    {null} \cup { ArrayValue(l) :
                    l \in UNION { [1..n -> CachedEntryPool] : n \in 0..MaxCached } }

CachedResultLists ==
    {null} \cup { ArrayValue(l) :
                    l \in UNION { [1..n -> CachedResultPool] : n \in 0..1 } }
          \cup { ArrayValue(<<a, b>>) :
                    a \in CachedResultPool,
                    b \in {r \in CachedResultPool : r.contest = "6904"} }

\* The entries at a later moment: the same, none, one record replaced, one
\* record more or one record less.
LaterEntryLists(data) ==
    IF data = null THEN {null, ArrayValue(<<>>)}
    ELSE {data, null}
         \cup { ArrayValue([data.items EXCEPT ![i] = e]) :
                   i \in DOMAIN data.items, e \in CachedEntryPool }
         \cup { ArrayValue(Append(data.items, e)) : e \in CachedEntryPool }
         \cup { ArrayValue(SubSeq(data.items, 1, Len(data.items) - 1)) }

\* The computed winners that are cached: nothing, or a list.
CachedData == {null, ArrayValue(<<>>), ArrayValue(<<"T1">>)}

CallSetCachedWinners ==
    /\ op = "none"
    /\ \E data \in CachedData, E \in CachedEntryLists, R \in CachedResultLists :
        /\ arg' = [data |-> data, entries |-> E, results |-> R]
        /\ cacheWinners' = setCachedWinners(data, StringValue(simpleHash(E)),
                                             StringValue(simpleHash(R)))
    /\ op' = "setCachedWinners"
    /\ res' = NoCall
    /\ prev' = NoCall
    /\ UNCHANGED <<tz, now, contestResults, heapVars, retryVars, submitVars, fetchVars>>

\* The cache is asked about the entries and results of a later moment; prev
\* keeps the call that filled the cache.
CallIsWinnersCacheValid ==
    /\ op = "setCachedWinners"
    /\ \E E \in LaterEntryLists(arg.entries), R \in CachedResultLists :
        /\ arg' = [entries |-> E, results |-> R]
        /\ res' = [value |-> isWinnersCacheValid(cacheWinners, E, R)]
    /\ op' = "isWinnersCacheValid"
    /\ prev' = [arg |-> arg, res |-> res]
    /\ UNCHANGED <<tz, now, contestResults, heapVars, cacheVars, retryVars, submitVars, fetchVars>>

\* The cache before anything was stored in it.
CallIsWinnersCacheValidFirst ==
    /\ op = "none"
    /\ cacheWinners.data = null
    /\ \E E \in CachedEntryLists, R \in CachedResultLists :
        /\ arg' = [entries |-> E, results |-> R]
        /\ res' = [value |-> isWinnersCacheValid(cacheWinners, E, R)]
    /\ op' = "isWinnersCacheValid"
    /\ prev' = NoCall
    /\ UNCHANGED <<tz, now, contestResults, heapVars, cacheVars, retryVars, submitVars, fetchVars>>

NextCache ==
    \/ CallSetCachedWinners
    \/ CallIsWinnersCacheValid
    \/ CallIsWinnersCacheValidFirst
    \/ Return

SpecCache == InitValidator /\ [][NextCache]_vars

(***************************************************************************)
(* The calendar rules as the specification words them, on civil day        *)
(* numbers of the UTC-3 calendar.                                          *)
(***************************************************************************)
\* Civil (UTC-3) day number of an instant.
CivilDay(t) == (t - 3 * 3600) \div 86400

IsMonthDay(d, m, dd) == CivilFromDays(d).month = m /\ CivilFromDays(d).day = dd

IsSundayDay(d) == WeekDay(d) = 0

IsClosureDay(d) == IsMonthDay(d, 12, 25) \/ IsMonthDay(d, 1, 1)

IsEarlyDay(d) == IsMonthDay(d, 12, 24) \/ IsMonthDay(d, 12, 31)

IsDrawDay(d) == ~IsSundayDay(d) /\ ~IsClosureDay(d)

\* Number of valid draw days among the days lo..hi.
DrawDaysIn(lo, hi) == Cardinality({d \in lo..hi : IsDrawDay(d)})

\* Civil day that the input of the last call names.
ArgDay ==
    IF arg.kind = "string"
    THEN DaysFromCivil(arg.str.year, arg.str.month, arg.str.day)
    ELSE CivilDay(arg.t)

PrevDay ==
    IF prev.arg.kind = "string"
    THEN DaysFromCivil(prev.arg.str.year, prev.arg.str.month, prev.arg.str.day)
    ELSE CivilDay(prev.arg.t)

\* C1: isValidDrawDay(date) is false when the civil (UTC-3) day of date is a
\* Sunday, 25 December or 1 January (of any year), and true for every other day.
C1_IsValidDrawDay ==
    op = "isValidDrawDay" =>
        res.value = (~IsSundayDay(CivilDay(arg.t)) /\ ~IsMonthDay(CivilDay(arg.t), 12, 25)
                        /\ ~IsMonthDay(CivilDay(arg.t), 1, 1))

\* A 1 January of another year than the reference's that is no Sunday, asked
\* in its last second, is answered false.
C1_Witness ==
    /\ op = "isValidDrawDay"
    /\ IsMonthDay(CivilDay(arg.t), 1, 1)
    /\ CivilFromDays(CivilDay(arg.t)).year # RefYear + 1
    /\ ~IsSundayDay(CivilDay(arg.t))
    /\ arg.t % 86400 = 10799
    /\ res.value = FALSE

\* C2: calculateConcurso is strictly monotonic over valid draw days: of two
\* valid draw days the earlier one has the smaller concurso, on either side
\* of the reference date or across it.
C2_StrictlyMonotonic ==
    (op = "calculateConcurso" /\ prev # NoCall
        /\ IsDrawDay(PrevDay) /\ IsDrawDay(ArgDay) /\ PrevDay < ArgDay)
    => prev.res.value < res.value

\* Two valid draw days on the two sides of the reference date were numbered.
C2_Witness ==
    /\ op = "calculateConcurso" /\ prev # NoCall
    /\ IsDrawDay(PrevDay) /\ IsDrawDay(ArgDay)
    /\ PrevDay < RefDay /\ RefDay < ArgDay
    /\ prev.res.value < res.value

\* C3: calculateConcurso of the reference date 2025-12-15, given as a Date or
\* as a 'YYYY-MM-DD' string, is exactly 6903.
C3_ReferenceNumber ==
    (op = "calculateConcurso" /\ ArgDay = DaysFromCivil(2025, 12, 15))
    => res.value = 6903

\* The reference day given as a Date at 21:00 UTC-3 (the next day in UTC).
C3_Witness ==
    /\ op = "calculateConcurso"
    /\ arg.kind = "Date"
    /\ arg.t = InstantOf(DaysFromCivil(2025, 12, 15), 75600)
    /\ res.value = 6903

\* C4: if D is the N-th valid draw day after the reference date (N >= 1),
\* calculateConcurso(D) = 6903 + N.
C4_NthDrawDay ==
    (op = "calculateConcurso" /\ ArgDay > RefDay /\ IsDrawDay(ArgDay))
    => res.value = 6903 + DrawDaysIn(RefDay + 1, ArgDay)

\* A valid draw day after the closures of 25 December and 1 January.
C4_Witness ==
    /\ op = "calculateConcurso"
    /\ IsDrawDay(ArgDay)
    /\ ArgDay > DaysFromCivil(RefYear + 1, 1, 1)
    /\ res.value = 6903 + DrawDaysIn(RefDay + 1, ArgDay)
    /\ res.value < 6903 + (ArgDay - RefDay) - 3

\* C5 as claimed: calculateConcurso(target) is the reference number plus or
\* minus the number of valid draw days strictly between the reference day and
\* the target day, both excluded.
C5_StrictlyBetween ==
    op = "calculateConcurso" =>
        res.value = IF ArgDay >= RefDay
                    THEN 6903 + DrawDaysIn(RefDay + 1, ArgDay - 1)
                    ELSE 6903 - DrawDaysIn(ArgDay + 1, RefDay - 1)

\* C5 amended: the reference day is excluded and the target day is included:
\* calculateConcurso(target) is 6903 plus the number of valid draw days after
\* the reference day up to and including the target day, or 6903 minus the
\* number of valid draw days from the target day, included, up to the day
\* before the reference day.
C5_TargetIncluded ==
    op = "calculateConcurso" =>
        res.value = IF ArgDay >= RefDay
                    THEN 6903 + DrawDaysIn(RefDay + 1, ArgDay)
                    ELSE 6903 - DrawDaysIn(ArgDay, RefDay - 1)

\* A valid draw day before the reference day, with a Sunday in between, whose
\* number counts the day itself.
C5_Witness ==
    /\ op = "calculateConcurso"
    /\ IsDrawDay(ArgDay)
    /\ ArgDay < RefDay - 7
    /\ res.value = 6903 - DrawDaysIn(ArgDay, RefDay - 1)
    /\ res.value # 6903 - DrawDaysIn(ArgDay + 1, RefDay - 1)

\* The schedule of civil day d: draw at 17:00 on an early-draw day, else at 20:00.
DrawInstant(d) == InstantOf(d, IF IsEarlyDay(d) THEN 17 * 3600 ELSE 20 * 3600)

\* First valid draw day strictly after day d (no run of closures and Sundays
\* is longer than two days).
NextDrawDayAfter(d) == Least({e \in (d + 1)..(d + 14) : IsDrawDay(e)})

\* The day whose draw is the current one at instant t.
CurrentDrawDay(t) ==
    IF IsDrawDay(CivilDay(t)) /\ t <= DrawInstant(CivilDay(t)) - 1
    THEN CivilDay(t)
    ELSE NextDrawDayAfter(CivilDay(t))

\* C6: at instant now, getCurrentDrawSchedule returns today's schedule if
\* today is a valid draw day and now <= today's cutoff, and otherwise (after
\* the cutoff, or today no draw day) the schedule of the first valid draw day
\* strictly after today.
C6_CurrentSchedule ==
    op = "getCurrentDrawSchedule" =>
        /\ res.error = ""
        /\ res.schedule.drawDate = InstantOf(CurrentDrawDay(now), 0)
        /\ res.schedule.cutoff = DrawInstant(CurrentDrawDay(now)) - 1

\* C6 in the environments whose local zone has one fixed offset.
C6_FixedOffsetZones ==
    tz # "Europe/Berlin" => C6_CurrentSchedule

\* C7: getCurrentDrawSchedule never fails with 'No valid draw date found';
\* the drawDate it returns is a valid draw day and its cutoff is not before now.
C7_AlwaysFindsOpenDraw ==
    op = "getCurrentDrawSchedule" =>
        /\ res.error = ""
        /\ isValidDrawDay(res.schedule.drawDate)
        /\ res.schedule.cutoff >= now

\* C7 in the environments whose local zone has one fixed offset.
C7_FixedOffsetZones ==
    tz # "Europe/Berlin" => C7_AlwaysFindsOpenDraw

\* The part of C7 that holds in every zone: the scan never fails and the day
\* returned is a valid draw day.
C7_ScanNeverFails ==
    op = "getCurrentDrawSchedule" =>
        res.error = "" /\ isValidDrawDay(res.schedule.drawDate)

\* C8: for every civil date given to buildScheduleForDate, cutoff is one
\* second before the draw instant of that civil day, regStart is 20:00:01
\* UTC-3 of the civil day before, and regStart is before cutoff.
C8_ScheduleShape ==
    op = "buildScheduleForDate" =>
        /\ res.cutoff = DrawInstant(ArgDay) - 1
        /\ res.regStart = InstantOf(ArgDay - 1, 20 * 3600 + 1)
        /\ res.regStart < res.cutoff

\* C8 in the environments whose local zone has one fixed offset.
C8_FixedOffsetZones ==
    tz # "Europe/Berlin" => C8_ScheduleShape

\* C9: getDrawTimeHour(date) is 17 exactly when the civil day is 24 or 31
\* December and 20 otherwise; the drawHour of every schedule is 17 or 20.
C9_DrawHour ==
    /\ op = "getDrawTimeHour" =>
          res.value = IF IsMonthDay(CivilDay(arg.t), 12, 24)
                          \/ IsMonthDay(CivilDay(arg.t), 12, 31)
                      THEN 17 ELSE 20
    /\ op = "buildScheduleForDate" => res.drawHour \in {17, 20}

\* The hour of a 31 December, asked in its last second, is 17.
C9_Witness ==
    /\ op = "getDrawTimeHour"
    /\ IsMonthDay(CivilDay(arg.t), 12, 31)
    /\ arg.t % 86400 = 10799
    /\ res.value = 17

\* C10 as claimed: every date for which isEarlyDrawDay holds (24 or 31
\* December of any year) is a valid draw day.
C10_EarlyDrawDayIsValid ==
    (op = "isEarlyDrawDay" /\ res.value) => isValidDrawDay(arg.t)

\* C10 amended: every early-draw day that is not a Sunday is a valid draw
\* day (24 and 31 December are no closures); one that falls on a Sunday is not.
C10_EarlyDrawDayIsValidUnlessSunday ==
    (op = "isEarlyDrawDay" /\ res.value) =>
        (isValidDrawDay(arg.t) <=> ~IsSundayDay(CivilDay(arg.t)))

\* A 24 December that is no Sunday was found early and is a valid draw day.
C10_Witness ==
    /\ op = "isEarlyDrawDay"
    /\ res.value
    /\ IsMonthDay(CivilDay(arg.t), 12, 24)
    /\ ~IsSundayDay(CivilDay(arg.t))
    /\ isValidDrawDay(arg.t)

\* First valid draw day among the 14 days that start with day d.
FirstDrawDayFrom(d) == Least({e \in d..(d + 13) : IsDrawDay(e)})

\* C11: getNextValidDrawDate(fromDate) returns the first valid draw day among
\* the 14 civil days that start with fromDate's own day, and fails with 'No
\* valid draw date found in range' only if none of those days is valid.
C11_FirstValidDayFromInput ==
    op = "getNextValidDrawDate" =>
        IF \E e \in CivilDay(arg.t)..(CivilDay(arg.t) + 13) : IsDrawDay(e)
        THEN /\ res.error = ""
             /\ CivilDay(res.date) = FirstDrawDayFrom(CivilDay(arg.t))
        ELSE res.error = "No valid draw date found in range"

\* C11 in the environment whose local zone is the UTC-3 zone of the draws.
C11_SaoPauloZone ==
    tz = "America/Sao_Paulo" => C11_FirstValidDayFromInput

\* What holds of getNextValidDrawDate in every zone: the scan does not fail
\* and the day returned is a valid draw day.
C11_ReturnsValidDay ==
    op = "getNextValidDrawDate" =>
        res.error = "" /\ isValidDrawDay(res.date)

\* C12: for the same input, the results of getNextValidDrawDate,
\* buildScheduleForDate and calculateConcurso are those of every other local
\* time zone, and the day getNextValidDrawDate scans from is the UTC-3 day
\* of the instant.
C12_ZoneIndependent ==
    /\ op = "getNextValidDrawDate" =>
          /\ \A z \in TimeZones : res = getNextValidDrawDate(z, arg.t)
          /\ res.error = "" => CivilDay(res.date) >= CivilDay(arg.t)
    /\ op = "buildScheduleForDate" =>
          \A z \in TimeZones : res = buildScheduleForDate(z, arg)
    /\ op = "getCurrentDrawSchedule" =>
          \A z \in TimeZones : res = getCurrentDrawSchedule(z, arg.t)

\* The part of C12 that holds: the drawDate and the cutoff of a schedule
\* built for a date, and the concurso, do not depend on the local zone.
C12_CutoffZoneIndependent ==
    op = "buildScheduleForDate" =>
        \A z \in TimeZones :
            /\ res.drawDate = buildScheduleForDate(z, arg).drawDate
            /\ res.cutoff = buildScheduleForDate(z, arg).cutoff

(***************************************************************************)
(* The entry matcher, the validation gate and the winner aggregator as the *)
(* specification words them.                                               *)
(***************************************************************************)
Members(list) == {list[i] : i \in DOMAIN list}

\* C13: matchNumbers(chosen, winning) returns as matchedNumbers the
\* subsequence of chosen whose elements are members of winning, in the order
\* of chosen, and as count the length of matchedNumbers.
C13_MatchedSubsequence ==
    op = "matchNumbers" =>
        LET InWinning(n) == n \in Members(arg.winningNumbers)
        IN  /\ res.matchedNumbers = SelectSeq(arg.chosenNumbers, InWinning)
            /\ res.count = Len(res.matchedNumbers)

\* The documented example: [10,20,30,40,50] against [10,20,99,98,97].
C13_Witness ==
    /\ op = "matchNumbers"
    /\ arg.chosenNumbers = <<10, 20, 30, 40, 50>>
    /\ arg.winningNumbers = <<10, 20, 99, 98, 97>>
    /\ res = [count |-> 2, matchedNumbers |-> <<10, 20>>]

\* C14: getPrizeTier maps the match counts 0..5 to a tier: 5 to priority 1
\* (GRAND PRIZE), 4 to priority 2, 3 to priority 3, 2 to priority 4
\* (CONSOLATION), 0 and 1 to priority 5 (NO PRIZE); no input is left without
\* a tier.
C14_PrizeTierMapping ==
    op = "getPrizeTier" =>
        /\ {"tier", "priority"} \subseteq DOMAIN res
        /\ res.priority \in 1..5
        /\ arg.matchCount = 5 => res.priority = 1 /\ res.tier = "GRAND PRIZE"
        /\ arg.matchCount = 4 => res.priority = 2
        /\ arg.matchCount = 3 => res.priority = 3
        /\ arg.matchCount = 2 => res.priority = 4 /\ res.tier = "CONSOLATION"
        /\ arg.matchCount \in {0, 1} => res.priority = 5 /\ res.tier = "NO PRIZE"

\* Two matches are the consolation tier.
C14_Witness ==
    /\ op = "getPrizeTier"
    /\ arg.matchCount = 2
    /\ res.priority = 4
    /\ res.tier = "CONSOLATION"

\* The entry carries a validity: the field is there and holds some text.
CarriesValidity(entry) ==
    entry.validity.kind = "string" /\ entry.validity.str # ""

\* The validity and the status as they are read: trimmed and in upper case;
\* csvStatus stands in for a status that is missing.
ValidityOf(entry) == TrimUpper(entry.validity.str)

StatusOf(entry) ==
    TrimUpper(IF entry.status.kind = "string" /\ entry.status.str # ""
              THEN entry.status.str
              ELSE IF entry.csvStatus.kind = "string" THEN entry.csvStatus.str
              ELSE "")

\* The outcome of a lookup or of a match: validateEntry did not stop at a gate.
PastTheGates(outcome) == "gate" \notin DOMAIN outcome

\* C15: an entry that carries a validity other than VALID is rejected
\* whatever its status says: with gate RECHARGE_INVALID when the validity is
\* INVALID and with gate VALIDITY_UNKNOWN otherwise; no winning numbers are
\* looked up or matched.
C15_ValidityGate ==
    (op = "validateEntry" /\ CarriesValidity(arg.entry)
        /\ ValidityOf(arg.entry) # "VALID") =>
        /\ ~res.validated
        /\ ~PastTheGates(res)
        /\ res.gate = IF ValidityOf(arg.entry) = "INVALID"
                      THEN "RECHARGE_INVALID" ELSE "VALIDITY_UNKNOWN"
        /\ {"matches", "matchedNumbers", "winningNumbers"} \cap DOMAIN res = {}

\* An entry approved by hand whose validity is unknown, with its winning
\* numbers stored, is stopped at the validity gate.
C15_Witness ==
    /\ op = "validateEntry"
    /\ arg.entry.validity = StringValue("UNKNOWN")
    /\ arg.entry.status = StringValue("VALID")
    /\ ResultKey(arg.entry.contest, arg.entry.drawDate) \in DOMAIN contestResults
    /\ res.gate = "VALIDITY_UNKNOWN"

\* An empty validity counts as no validity: the entry is given the outcome
\* of the same entry without the field.
C15_EmptyValidityIsAbsent ==
    (op = "validateEntry" /\ arg.entry.validity = StringValue("")) =>
        res = validateEntry(contestResults,
                            [arg.entry EXCEPT !.validity = undefined])

\* C16: an entry whose validity is VALID skips the manual status check: its
\* outcome never has gate STATUS_INVALID or STATUS_NOT_VALIDATED, whatever
\* its status.
C16_ValidSkipsStatusCheck ==
    (op = "validateEntry" /\ CarriesValidity(arg.entry)
        /\ ValidityOf(arg.entry) = "VALID") =>
        PastTheGates(res)

\* What holds of an entry whose validity is VALID: it is given the outcome
\* of the same entry without validity.
C16_ValidFallsToStatusCheck ==
    (op = "validateEntry" /\ CarriesValidity(arg.entry)
        /\ ValidityOf(arg.entry) = "VALID") =>
        res = validateEntry(contestResults,
                            [arg.entry EXCEPT !.validity = undefined])

AcceptedStatuses == {"VALID", "VALIDATED", "VALIDADO"}

\* C17: an entry without validity is rejected with gate STATUS_INVALID if its
\* status is INVALID or INVÁLIDO, and with gate STATUS_NOT_VALIDATED for every
\* other status that is not VALID, VALIDATED or VALIDADO, an empty or missing
\* status included; only an accepted status reaches the lookup.
C17_StatusGate ==
    (op = "validateEntry" /\ ~CarriesValidity(arg.entry)) =>
        IF StatusOf(arg.entry) \in {"INVALID", "INVÁLIDO"}
        THEN ~res.validated /\ ~PastTheGates(res) /\ res.gate = "STATUS_INVALID"
        ELSE IF StatusOf(arg.entry) \notin AcceptedStatuses
        THEN ~res.validated /\ ~PastTheGates(res)
             /\ res.gate = "STATUS_NOT_VALIDATED"
        ELSE PastTheGates(res)

\* C17 for the entries that have some status.
C17_StatusGateOfNonEmptyStatus ==
    (op = "validateEntry" /\ StatusOf(arg.entry) # "") => C17_StatusGate

\* The stored result of the entry's contest and draw date, if any.
StoredFor(entry) ==
    {key \in DOMAIN contestResults :
        /\ contestResults[key].contest = entry.contest
        /\ contestResults[key].drawDate = entry.drawDate}

\* Number of the chosen numbers that are among the winning numbers.
Hits(chosenNumbers, winningNumbers) ==
    Cardinality({i \in DOMAIN chosenNumbers :
                    chosenNumbers[i] \in Members(winningNumbers)})

\* C18: for an entry past the validity and status checks, validateEntry
\* returns validated = false with a message and no gate when no result is
\* stored for the entry's contest and draw date; when one is stored it
\* returns validated = true, matches = the number of chosen numbers among the
\* winning numbers of that result, and prizeTier = getPrizeTier(matches).
C18_LookupThenMatch ==
    (op = "validateEntry" /\ PastTheGates(res)) =>
        IF StoredFor(arg.entry) = {}
        THEN ~res.validated /\ DOMAIN res = {"validated", "message"}
        ELSE \A key \in StoredFor(arg.entry) :
                /\ res.validated
                /\ res.matches = Hits(arg.entry.chosenNumbers,
                                      contestResults[key].winningNumbers)
                /\ res.prizeTier = getPrizeTier(res.matches)
                /\ res.winningNumbers = contestResults[key].winningNumbers

\* An approved entry of a contest whose result is stored for another draw
\* date only: the lookup misses, although that draw date has a result.
C18_Witness ==
    /\ op = "validateEntry"
    /\ PastTheGates(res)
    /\ StoredFor(arg.entry) = {}
    /\ \E key \in DOMAIN contestResults : key[2] = arg.entry.drawDate
    /\ ~res.validated

\* An approved entry with four matches against the stored result.
C18_WitnessMatch ==
    /\ op = "validateEntry"
    /\ StoredFor(arg.entry) # {}
    /\ res.validated
    /\ res.matches = 4
    /\ res.prizeTier.priority = 2

\* The entries of the last getWinners call, by their place in the input.
Places == DOMAIN arg.entries

HasAcceptedStatus(i) ==
    /\ arg.entries[i].status.kind = "string"
    /\ TrimUpper(arg.entries[i].status.str) \in AcceptedStatuses

OutcomeOf(i) == validateEntry(contestResults, arg.entries[i])

SameGroup(i, j) ==
    /\ arg.entries[i].platform = arg.entries[j].platform
    /\ arg.entries[i].contest = arg.entries[j].contest
    /\ arg.entries[i].drawDate = arg.entries[j].drawDate

\* The validated members of the group of entry i.
ValidatedPeers(i) ==
    {j \in Places : HasAcceptedStatus(j) /\ SameGroup(i, j)
                    /\ OutcomeOf(j).validated}

\* Entry i is a validated member of its group with the most matches of the
\* group's validated members, and that is more than none.
AtGroupMaximum(i) ==
    /\ i \in ValidatedPeers(i)
    /\ OutcomeOf(i).matches > 0
    /\ \A j \in ValidatedPeers(i) : OutcomeOf(j).matches <= OutcomeOf(i).matches

\* Number of times entry e is among the winners returned.
TimesReturned(e) ==
    Cardinality({k \in DOMAIN res.winners : res.winners[k].entry = e})

\* C19: the winners getWinners returns from a (platform, contest, drawDate)
\* group are exactly its validated members whose matches are the maximum
\* among the group's validated members, ties included; a member with fewer
\* matches is not returned, and a group whose maximum is 0 or that has no
\* validated member yields no winner.
C19_HighestTierOnly ==
    op = "getWinners" =>
        /\ Len(res.winners) = Cardinality({i \in Places : AtGroupMaximum(i)})
        /\ \A i \in Places :
              TimesReturned(arg.entries[i]) =
                  Cardinality({j \in Places : /\ arg.entries[j] = arg.entries[i]
                                              /\ AtGroupMaximum(j)})
        /\ \A k \in DOMAIN res.winners :
              /\ res.winners[k].validation.validated
              /\ res.winners[k].winningLevel = res.winners[k].validation.matches

\* Three validated members of one group, two with four matches and one with
\* three: the two are the winners.
C19_Witness ==
    /\ op = "getWinners"
    /\ Len(res.winners) = 2
    /\ \E i, j, k \in Places :
        /\ i # j
        /\ SameGroup(i, j) /\ SameGroup(i, k)
        /\ OutcomeOf(i).validated /\ OutcomeOf(i).matches = 4
        /\ OutcomeOf(j).validated /\ OutcomeOf(j).matches = 4
        /\ OutcomeOf(k).validated /\ OutcomeOf(k).matches = 3
        /\ HasAcceptedStatus(k)

\* C20: the winners getWinners returns for a platform are those it returns
\* when the entries of the other platforms are left out of the input: an
\* entry of another platform with more matches, of the same contest and draw
\* date, does not suppress them.
C20_PlatformIsolation ==
    op = "getWinners" =>
        \A p \in Platforms :
            LET IsOfPlatform(e) == e.platform = p
                WinnerOfPlatform(w) == w.entry.platform = p
            IN  SelectSeq(res.winners, WinnerOfPlatform) =
                    getWinners(contestResults,
                               SelectSeq(arg.entries, IsOfPlatform))

\* An entry with three matches wins on its platform next to an entry with
\* four matches of the same contest and draw date on the other platform.
C20_Witness ==
    /\ op = "getWinners"
    /\ \E k, l \in DOMAIN res.winners :
        /\ res.winners[k].entry.platform # res.winners[l].entry.platform
        /\ res.winners[k].entry.contest = res.winners[l].entry.contest
        /\ res.winners[k].entry.drawDate = res.winners[l].entry.drawDate
        /\ res.winners[k].validation.matches = 3
        /\ res.winners[l].validation.matches = 4

\* The entries of the last getWinners call without those whose status is not
\* an accepted one.
AcceptedEntries ==
    LET Accepted(e) == /\ e.status.kind = "string"
                       /\ TrimUpper(e.status.str) \in AcceptedStatuses
    IN  SelectSeq(arg.entries, Accepted)

\* C21: every entry that getWinners returns has a status that, trimmed and in
\* upper case, is VALID, VALIDATED or VALIDADO; an entry with another status
\* (PENDING, ...) is not returned whatever its matches, and it has no
\* influence on the winning level of a group: the winners are those of the
\* input without such entries.
C21_AcceptedStatusOnly ==
    op = "getWinners" =>
        /\ \A k \in DOMAIN res.winners :
              /\ res.winners[k].entry.status.kind = "string"
              /\ TrimUpper(res.winners[k].entry.status.str) \in AcceptedStatuses
        /\ res.winners = getWinners(contestResults, AcceptedEntries)

\* A pending entry with every number right stands in the group of an approved
\* entry with three matches: the approved entry is the winner.
C21_Witness ==
    /\ op = "getWinners"
    /\ Len(res.winners) = 1
    /\ res.winners[1].validation.matches = 3
    /\ \E i \in Places :
        /\ arg.entries[i].status = StringValue("PENDING")
        /\ arg.entries[i].chosenNumbers = res.winners[1].validation.winningNumbers
        /\ arg.entries[i].platform = res.winners[1].entry.platform
        /\ arg.entries[i].contest = res.winners[1].entry.contest
        /\ arg.entries[i].drawDate = res.winners[1].entry.drawDate

\* C22 as claimed: the winners are ordered by matches descending first, also
\* across contests, and among equal matches by contest ascending.
C22_MatchesDescendingFirst ==
    op = "getWinners" =>
        \A k, l \in DOMAIN res.winners :
            k < l =>
                /\ res.winners[k].validation.matches
                       >= res.winners[l].validation.matches
                /\ res.winners[k].validation.matches
                       = res.winners[l].validation.matches
                   => res.winners[k].entry.contest <= res.winners[l].entry.contest

\* C22 amended: the winners are ordered by contest ascending first, and
\* within one contest by matches descending.
C22_ContestAscendingFirst ==
    op = "getWinners" =>
        \A k, l \in DOMAIN res.winners :
            k < l =>
                /\ res.winners[k].entry.contest <= res.winners[l].entry.contest
                /\ res.winners[k].entry.contest = res.winners[l].entry.contest
                   => res.winners[k].validation.matches
                          >= res.winners[l].validation.matches

\* A winner with three matches of the first contest stands before a winner
\* with four matches of the second, given in the other order; and in one
\* contest a winner with four matches stands before one with three that was
\* given first.
C22_Witness ==
    /\ op = "getWinners"
    /\ Len(res.winners) = 3
    /\ res.winners[1].entry.contest = res.winners[2].entry.contest
    /\ res.winners[1].validation.matches = 4
    /\ res.winners[2].validation.matches = 3
    /\ res.winners[3].entry.contest > res.winners[2].entry.contest
    /\ res.winners[3].validation.matches = 4
    /\ arg.entries[1].contest > arg.entries[2].contest
    /\ arg.entries[2].chosenNumbers = ChosenOf(3)

\* C23: validateEntry and getWinners are read-only: a call leaves the stored
\* contestResults, the array it was given and every field of every entry as
\* they were, and the same call made again returns the same result.
C23_ReadOnly ==
    [][op' \in {"validateEntry", "getWinners"} =>
          /\ contestResults' = contestResults
          /\ inputEntries' = IF op' = "validateEntry" THEN <<arg'.entry>>
                             ELSE arg'.entries
          /\ prev' # NoCall => res' = prev'.res]_vars

\* getWinners was called twice with entries of which some won.
C23_Witness ==
    /\ op = "getWinners"
    /\ prev # NoCall
    /\ Len(prev.res.winners) > 1
    /\ res = prev.res
    /\ inputEntries = arg.entries
    /\ contestResults # NoResults

\* C25: calculateConcurso counts symmetrically on both sides of the reference:
\* for any two days A <= B, valid draw days or not, calculateConcurso(B) -
\* calculateConcurso(A) is the number of valid draw days d with A < d <= B.
C25_SymmetricCount ==
    (op = "calculateConcurso" /\ prev # NoCall /\ PrevDay <= ArgDay)
    => res.value - prev.res.value = DrawDaysIn(PrevDay + 1, ArgDay)

\* On and after the reference day the difference does count the valid draw
\* days d with A < d <= B.
C25_FromReferenceOn ==
    (op = "calculateConcurso" /\ prev # NoCall
        /\ RefDay <= PrevDay /\ PrevDay <= ArgDay)
    => res.value - prev.res.value = DrawDaysIn(PrevDay + 1, ArgDay)

\* Before the reference day the difference counts the valid draw days d with
\* A <= d < B: a day that is no draw day has the number of the draw day after it.
C25_BeforeReference ==
    (op = "calculateConcurso" /\ prev # NoCall
        /\ PrevDay <= ArgDay /\ ArgDay < RefDay)
    => res.value - prev.res.value = DrawDaysIn(PrevDay, ArgDay - 1)

\* The Saturday and the Sunday before the reference day were numbered, and
\* their numbers differ although no draw day lies after the Saturday.
C25_SundayBeforeReference ==
    /\ op = "calculateConcurso" /\ prev # NoCall
    /\ ArgDay = RefDay - 1 /\ PrevDay = RefDay - 2
    /\ IsSundayDay(ArgDay)
    /\ res.value - prev.res.value = 1
    /\ DrawDaysIn(PrevDay + 1, ArgDay) = 0

\* The valid draw days whose cutoff lies at or after instant t1 and before t2:
\* the cutoffs passed when the clock goes from t1 to t2.
CutoffsPassed(t1, t2) ==
    {d \in CivilDay(t1)..CivilDay(t2) :
        IsDrawDay(d) /\ t1 <= DrawInstant(d) - 1 /\ DrawInstant(d) - 1 < t2}

\* C30: as the clock advances, the concurso of the current draw never
\* decreases, changes only when a cutoff is passed, and grows by exactly one
\* for each cutoff passed (Sundays, closures, early draws and the reference
\* day included).
C30_OneStepPerCutoff ==
    (op = "currentConcurso" /\ prev # NoCall) =>
        /\ res.error = "" /\ prev.res.error = ""
        /\ res.value >= prev.res.value
        /\ res.value - prev.res.value
               = Cardinality(CutoffsPassed(prev.arg.t, arg.t))

\* C30 in the environments whose local zone has one fixed offset.
C30_FixedOffsetZones ==
    tz # "Europe/Berlin" => C30_OneStepPerCutoff

\* The 17:00 cutoff of 24 December was passed between two readings; the
\* concurso went up by one, to that of 26 December.
C30_EarlyCutoffPassed ==
    /\ op = "currentConcurso" /\ prev # NoCall
    /\ tz # "Europe/Berlin"
    /\ prev.arg.t = DrawInstant(DaysFromCivil(RefYear, 12, 24)) - 1
    /\ arg.t = DrawInstant(DaysFromCivil(RefYear, 12, 24))
    /\ res.value = prev.res.value + 1
    /\ CivilDay(res.drawDate) = DaysFromCivil(RefYear, 12, 26)

\* What the fingerprint reads of a list: whether there is one, its length and
\* the identifiers (ticketNumber, else contest) of its first and last record.
FingerprintOf(data) ==
    IF data = null THEN <<>>
    ELSE <<Len(data.items), IdentifierAt(data.items, 1),
           IdentifierAt(data.items, Len(data.items))>>

\* C27 as claimed: after setCachedWinners(data, simpleHash(E), simpleHash(R)),
\* isWinnersCacheValid(E', R') is true only if E' and R' hold the same records
\* as E and R; any change makes it false.
C27_ValidOnlyForSameData ==
    (op = "isWinnersCacheValid" /\ prev # NoCall /\ res.value)
    => (arg.entries = prev.arg.entries /\ arg.results = prev.arg.results)

\* C27 amended: isWinnersCacheValid(E', R') is true exactly when data was
\* cached and E' and R' agree with E and R in their length and in the
\* identifiers of their first and last records.
C27_ValidForSameFingerprint ==
    (op = "isWinnersCacheValid" /\ prev # NoCall)
    => res.value = (/\ prev.arg.data # null
                    /\ FingerprintOf(arg.entries) = FingerprintOf(prev.arg.entries)
                    /\ FingerprintOf(arg.results) = FingerprintOf(prev.arg.results))

\* The middle one of three entries was approved and the first result was
\* redrawn; the cache is judged valid.
C27_Witness ==
    /\ op = "isWinnersCacheValid" /\ prev # NoCall
    /\ res.value
    /\ arg.entries # null /\ prev.arg.entries # null
    /\ Len(arg.entries.items) = 3 /\ Len(prev.arg.entries.items) = 3
    /\ arg.entries.items[2].status # prev.arg.entries.items[2].status
    /\ arg.entries.items[1] = prev.arg.entries.items[1]
    /\ arg.entries.items[3] = prev.arg.entries.items[3]
    /\ arg.results # prev.arg.results

\* The entries lost their last record; the cache is judged invalid.
C27_WitnessShorter ==
    /\ op = "isWinnersCacheValid" /\ prev # NoCall
    /\ ~res.value
    /\ prev.arg.data # null
    /\ prev.arg.entries # null /\ arg.entries # null
    /\ Len(arg.entries.items) = Len(prev.arg.entries.items) - 1
    /\ arg.results = prev.arg.results

\* The calls of fn made so far: the settled ones and the one awaited.
FnCalls == Len(retry.calls) + (IF retry.pc = "awaitFn" THEN 1 ELSE 0)

LastCall == retry.calls[Len(retry.calls)]

IsRetryable(settled) ==
    /\ settled.kind = "rejected"
    /\ settled.error.message # undefined
    /\ \E m \in {"Too Many Requests", "429", "503", "timeout", "Network",
                  "Failed to fetch"} :
           StringIncludes(settled.error.message.str, m)

\* fn is called at most maxRetries times; only the last call made can be a
\* success or a failure that is not retryable; after a success its result is
\* returned; after a failure that is not retryable, or the maxRetries-th
\* failure, that error is thrown.
RetryContract ==
    /\ FnCalls <= retry.maxRetries
    /\ \A k \in 1..(Len(retry.calls) - 1) : IsRetryable(retry.calls[k])
    /\ (retry.calls # <<>> /\ LastCall.kind = "fulfilled")
          => (retry.pc = "returned" /\ retry.outcome = LastCall)
    /\ (retry.calls # <<>> /\ LastCall.kind = "rejected"
            /\ (~IsRetryable(LastCall) \/ Len(retry.calls) = retry.maxRetries))
          => (retry.pc = "thrown" /\ retry.outcome = LastCall)
    /\ (retry.pc = "returned" /\ retry.maxRetries > 0)
          => (retry.calls # <<>> /\ LastCall.kind = "fulfilled")
    /\ retry.pc = "thrown" => retry.calls # <<>>

\* C26: retryWithBackoff terminates after calling fn at most maxRetries
\* times: it returns the result of the first successful call and makes no
\* further call, rethrows at once an error that matches no retryable marker,
\* and rethrows the last error when the maxRetries-th attempt fails.
C26_BoundedRetry ==
    /\ []RetryContract
    /\ (retry.pc # "idle") ~> (retry.pc \in {"returned", "thrown"})

\* The third of three attempts failed with a retryable error after two
\* retryable failures, and the error was thrown.
C26_Witness ==
    /\ retry.pc = "thrown"
    /\ retry.maxRetries = 3
    /\ Len(retry.calls) = 3
    /\ IsRetryable(retry.calls[3])
    /\ retry.outcome = retry.calls[3]

\* 'Request timed out' matches no marker and was thrown at once.
C26_WitnessNotRetryable ==
    /\ retry.pc = "thrown"
    /\ retry.maxRetries = 3
    /\ Len(retry.calls) = 1
    /\ retry.calls[1].kind = "rejected"
    /\ retry.calls[1].error.message = StringValue("Request timed out")

\* Civil day that a 'YYYY-MM-DD' date names.
DayOfDateString(str) == DaysFromCivil(str.year, str.month, str.day)

\* Every request sent so far by the invocations in progress.
SentRequests ==
    {q \in (DOMAIN submissions) \X (1..MaxRetriesArg) :
        q[2] \in DOMAIN submissions[q[1]].sent}

\* C24: every ticket-creation request confirmEntry sends, retries included,
\* carries a drawDate that is a valid draw day and the concurso that
\* calculateConcurso gives for that drawDate, both from the one reading of
\* the schedule taken when the invocation built its request body.
C24_StampedOnce ==
    \A q \in SentRequests :
        /\ IsDrawDay(DayOfDateString(submissions[q[1]].sent[q[2]].drawDate))
        /\ submissions[q[1]].sent[q[2]].concurso
              = calculateConcurso(StringInput(submissions[q[1]].sent[q[2]].drawDate))
        /\ submissions[q[1]].sent[q[2]].drawDate
              = getBrazilDateString(
                    getCurrentDrawSchedule(tz, submissions[q[1]].startedAt).schedule.drawDate)
        /\ submissions[q[1]].sent[q[2]] = submissions[q[1]].sent[1]

\* A request was sent for the second time after the cutoff it was stamped
\* before: the current draw is by now another one.
C24_Witness ==
    /\ Len(submissions) = 1
    /\ Len(submissions[1].sent) >= 2
    /\ getBrazilDateString(getCurrentDrawSchedule(tz, now).schedule.drawDate)
          # submissions[1].sent[2].drawDate
    /\ submissions[1].sent[2].concurso = CONCURSO_REFERENCE.number + 1

\* C29: at most one confirmEntry submission is in progress; an invocation
\* made while isSubmitting is true returns without sending; the flag is true
\* while the invocation that set it is in progress and false after each of
\* its exits.
C29_SingleSubmission ==
    /\ Len(submissions) <= 1
    /\ lastClick.wasSubmitting => (lastClick.result = "ignored" /\ ~lastClick.started)
    /\ isSubmitting = (submissions # <<>>)

\* The button was clicked again while the request was under way.
C29_Witness ==
    /\ lastClick.result = "ignored"
    /\ isSubmitting
    /\ Len(submissions) = 1
    /\ Len(submissions[1].sent) = 2

\* The flag is false again after a form with a wrong WhatsApp number.
C29_WitnessInvalid ==
    /\ lastClick.result = "invalidWhatsApp"
    /\ ~isSubmitting

\* The invocations whose network fetch is in flight.
InFlight == {k \in DOMAIN fetches : fetches[k].pc = "fetchCSV"}

\* C28: at most one network fetch of the entries sheet is in flight; a call
\* made while fetchLock.entries is held starts no fetch and returns the
\* cached entries, or [] when nothing is cached; fetchLock.entries is held
\* only while the invocation that set it is under way, and is false after
\* each of its ends (success, empty sheet, error).
C28_SingleFetch ==
    /\ Cardinality(InFlight) <= 1
    /\ lastFetch.lockHeld =>
          /\ ~lastFetch.started
          /\ lastFetch.returned = IF lastFetch.cached # null THEN lastFetch.cached
                                  ELSE EmptyArray
    /\ fetchLock.entries = (fetches # <<>>)

\* A forced call found the lock held with nothing cached and got [], while
\* the fetch of the first call was in flight.
C28_Witness ==
    /\ lastFetch.lockHeld
    /\ ~lastFetch.started
    /\ lastFetch.returned = EmptyArray
    /\ lastFetch.cached = null
    /\ Cardinality(InFlight) = 1

\* The lock is free again after a large sheet was parsed and cached.
C28_WitnessReleased ==
    /\ ~fetchLock.entries
    /\ cacheEntries.data # null
    /\ cacheEntries.data.sheet = "large"

====
